---- MODULE Spec2Model ----
(***************************************************************************)
(* A model of the SLaMA frame-capacity program: the deduplicated element   *)
(* pool, the frame graph and its builder, the subassembly factory, the     *)
(* hierarchy-of-strength engine, the FrameCapacity curve algebra, the      *)
(* sidesway mechanisms and the multi-frame main process.                   *)
(*                                                                         *)
(* Units.  Lengths are integers in millimetres, so that Python's           *)
(* round(L, ndigits=2) on metres is a rounding to a multiple of 10 mm.     *)
(* Objects (sections, elements, collections) are identified by the         *)
(* handle under which they were allocated; None is modelled by Null.       *)
(***************************************************************************)
EXTENDS Integers, Sequences, FiniteSets, TLC

VARIABLES
    heap,       \* Element objects ever created: heap[id] = [section, L]
    classLists, \* ElementCollection._column_elements / _beam_elements (class attributes)
    instLists,  \* instance attributes of the same names, set by reset()
    addCache,   \* functools.cache of add_column_element / add_beam_element
    requests,   \* history: the add requests made so far and what each returned
    builders,   \* RegularFrameBuilder objects: frame data, graph, build state
    lastSub,    \* the outcome of the last SubassemblyFactory.get_subassembly call
    hier,       \* the last get_hierarchy call: its subassembly, candidates and outcome
    capSum,     \* the last FrameCapacity.__add__ call: its operands and result
    mainRun,    \* the multi-frame main process: position, curves, files written
    mechRun,    \* the last mechanism call: the mechanism and what it returned
    factory,    \* a SubassemblyFactory: its frame, its cache and the calls made
    elemRun,    \* the last BasicElement.moment_rotation call
    sectRun,    \* the last pair of moment_curvature calls
    jointRun    \* the last Subassembly.domain_MN call

poolVars  == <<heap, classLists, instLists, addCache, requests>>
frameVars == <<builders, lastSub>>
unitVars  == <<factory, elemRun, sectRun, jointRun>>
calcVars  == <<hier, capSum, mainRun, mechRun, unitVars>>
vars == <<heap, classLists, instLists, addCache, requests, builders, lastSub,
          hier, capSum, mainRun, mechRun, factory, elemRun, sectRun, jointRun>>

Null == 0

(***************************************************************************)
(* Bounds of the model.                                                    *)
(***************************************************************************)
MaxRequests  == 3   \* add requests made in the pool specification
MaxVerticals == 3   \* verticals of a frame: 2 .. MaxVerticals
MaxFloors    == 2   \* floors of a frame: 1 .. MaxFloors

Kinds == {"column", "beam"}
Frames == {1, 2}    \* frames built in one process

(***************************************************************************)
(* Sections.  The validated section records (BasicSectionInput) are value  *)
(* objects compared field by field; a BasicSection object wraps one        *)
(* record and is compared and hashed by identity.  The catalogues hold a   *)
(* beam record and a column record with equal fields: ids are unique only  *)
(* within the beams and within the columns.                                *)
(***************************************************************************)
BeamCatalog ==
    <<[id |-> "S30", h |-> 300, cover |-> 30],
      [id |-> "S50", h |-> 500, cover |-> 30]>>

ColumnCatalog ==
    <<[id |-> "S30", h |-> 300, cover |-> 30],
      [id |-> "S40", h |-> 400, cover |-> 40]>>

Tags == {1, 2}

\* A BasicSection object: created by convert_to_section_collection, once per
\* frame (owner) and catalogue entry.
SectionObjs == [owner : Frames, kind : Kinds, tag : Tags]

get_section_data(section) ==
    IF section.kind = "beam" THEN BeamCatalog[section.tag]
                             ELSE ColumnCatalog[section.tag]

get_height(section) == get_section_data(section).h

get_depth(section) ==
    get_section_data(section).h - get_section_data(section).cover

(***************************************************************************)
(* round(L, ndigits=2) on a length in metres, L given in millimetres:      *)
(* the closest multiple of 10 mm, a tie going to the even multiple.        *)
(***************************************************************************)
Round2(L) ==
    LET q == L \div 10
        r == L % 10
    IN  IF r < 5 THEN 10 * q
        ELSE IF r > 5 THEN 10 * (q + 1)
        ELSE IF q % 2 = 0 THEN 10 * q ELSE 10 * (q + 1)

\* BasicElement.__init__
NewElement(section, L) == [section |-> section, L |-> Round2(L)]

\* A variant of match that compares section objects by identity.
matchByIdentity(element, section, L) ==
    (element.section = section) /\ (element.L = Round2(L))

\* BasicElement.match
match(element, section, L) ==
    (get_section_data(element.section) = get_section_data(section))
    /\ (element.L = Round2(L))

(***************************************************************************)
(* ElementCollection.  A pool state is the record                          *)
(*   [heap, classLists, instLists, addCache].                              *)
(* self._column_elements reads the instance attribute when reset() has set *)
(* one and the class attribute otherwise; append mutates that list.        *)
(***************************************************************************)
PoolState == [heap |-> heap, classLists |-> classLists,
              instLists |-> instLists, addCache |-> addCache]

HasOwn(p, coll, kind) == <<coll, kind>> \in DOMAIN p.instLists

ListOf(p, coll, kind) ==
    IF HasOwn(p, coll, kind) THEN p.instLists[<<coll, kind>>]
                             ELSE p.classLists[kind]

\* get_columns / get_beams
get_elements(p, coll, kind) == ListOf(p, coll, kind)

Append1(p, coll, kind, id) ==
    IF HasOwn(p, coll, kind)
    THEN [p EXCEPT !.instLists[<<coll, kind>>] = Append(@, id)]
    ELSE [p EXCEPT !.classLists[kind] = Append(@, id)]

\* The first element of the list matching (section, L), or Null.
RECURSIVE FirstMatch(_, _, _, _)
FirstMatch(p, list, section, L) ==
    IF list = <<>> THEN Null
    ELSE IF match(p.heap[Head(list)], section, L) THEN Head(list)
    ELSE FirstMatch(p, Tail(list), section, L)

CacheKey(coll, kind, section, L) ==
    [coll |-> coll, kind |-> kind, section |-> section, L |-> L]

\* add_column_element / add_beam_element (kind selects the list): the cached
\* result for the same arguments, else the first matching element of the
\* list, else a new element appended to it.  Returns [pool, ret].
add_element(p, coll, kind, section, L) ==
    LET key == CacheKey(coll, kind, section, L)
    IN  IF key \in DOMAIN p.addCache
        THEN [pool |-> p, ret |-> p.addCache[key]]
        ELSE LET found == FirstMatch(p, ListOf(p, coll, kind), section, L)
                 id == Len(p.heap) + 1
                 p1 == IF found # Null THEN p
                       ELSE Append1([p EXCEPT !.heap =
                                        Append(@, NewElement(section, L))],
                                    coll, kind, id)
                 ret == IF found # Null THEN found ELSE id
             IN  [pool |-> [p1 EXCEPT !.addCache =
                               (key :> ret) @@ p1.addCache],
                  ret |-> ret]

add_column_element(p, coll, section, L) == add_element(p, coll, "column", section, L)
add_beam_element(p, coll, section, L) == add_element(p, coll, "beam", section, L)

SetPool(p) ==
    /\ heap' = p.heap
    /\ classLists' = p.classLists
    /\ instLists' = p.instLists
    /\ addCache' = p.addCache

InitPool ==
    /\ heap = <<>>
    /\ classLists = [k \in Kinds |-> <<>>]
    /\ instLists = <<>>
    /\ addCache = <<>>
    /\ requests = {}

(***************************************************************************)
(* Validated frame input (Regular2DFrameInput).  H and L are cumulative,   *)
(* L starts at 0, loads has one entry per node, columns and beams give a   *)
(* section tag per floor and vertical / span.  Lists are functions over    *)
(* 0-based index ranges, as in the source.                                 *)
(***************************************************************************)
StoreyHeights == {3000}
SpanLengths == {4000}

\* Beam tags along a floor: all of the first section, all of the second, or
\* alternating from span to span.
BeamPatterns == {"first", "second", "alternate"}

BeamTag(pattern, span) ==
    IF pattern = "first" THEN 1
    ELSE IF pattern = "second" THEN 2
    ELSE 1 + (span % 2)

FrameInput(V, F, hs, ls, pattern, ctag) ==
    [H |-> [f \in 0 .. F - 1 |-> hs * (f + 1)],
     L |-> [v \in 0 .. V - 1 |-> ls * v],
     m |-> [f \in 0 .. F - 1 |-> 1],
     loads |-> [n \in 0 .. V * (F + 1) - 1 |-> 10 * (n + 1)],
     columns |-> [f \in 0 .. F - 1 |-> [v \in 0 .. V - 1 |-> ctag]],
     beams |-> [f \in 0 .. F - 1 |-> [s \in 0 .. V - 2 |-> BeamTag(pattern, s)]]]

FrameInputs ==
    {FrameInput(V, F, hs, ls, pattern, ctag) :
        V \in 2 .. MaxVerticals, F \in 1 .. MaxFloors,
        hs \in StoreyHeights, ls \in SpanLengths,
        pattern \in BeamPatterns, ctag \in Tags}

Size(list) == Cardinality(DOMAIN list)      \* len()
Last(list) == list[Size(list) - 1]          \* list[-1]

\* RegularFrame.verticals / spans / floors
verticals(data) == Size(data.L)
spans(data) == Size(data.L) - 1
floors(data) == Size(data.H)

\* SectionCollection.get_beams()[tag] / get_columns()[tag] of frame b
BeamSection(b, tag) == [owner |-> b, kind |-> "beam", tag |-> tag]
ColumnSection(b, tag) == [owner |-> b, kind |-> "column", tag |-> tag]

Max2(a, b) == IF a >= b THEN a ELSE b
Min2(a, b) == IF a <= b THEN a ELSE b

\* RegularFrameBuilder.__column_length
column_length(b, data, floor, vertical) ==
    LET H_storey == IF floor = 0 THEN data.H[0]
                    ELSE data.H[floor] - data.H[floor - 1]
        beam_h(span) == get_height(BeamSection(b, data.beams[floor][span]))
    IN  IF vertical = 0
        THEN [tag |-> data.columns[floor][0],
              length |-> H_storey - beam_h(0)]
        ELSE IF vertical = spans(data)
        THEN [tag |-> Last(data.columns[floor]),
              length |-> H_storey - beam_h(spans(data) - 1)]
        ELSE [tag |-> data.columns[floor][vertical],
              length |-> H_storey - Max2(beam_h(vertical), beam_h(vertical - 1))]

\* RegularFrameBuilder.__beam_length
beam_length(b, data, floor, span) ==
    LET L_span == data.L[span + 1] - data.L[span]
        col_h(v) == get_height(ColumnSection(b, data.columns[floor][v]))
    IN  [tag |-> data.beams[floor][span],
         length |-> L_span - (col_h(span) + col_h(span + 1)) \div 2]

(***************************************************************************)
(* Graph: the adjacency list maps each node to a set of (neighbour,        *)
(* element) pairs.                                                         *)
(***************************************************************************)
\* Graph.__init__
NewGraph(node_count) == [n \in 0 .. node_count - 1 |-> {}]

\* Graph.add_arch
add_arch(adj, i_node, j_node, weight) ==
    [adj EXCEPT ![i_node] = @ \cup {<<j_node, weight>>}]

\* A variant of __add_element that stores the arch in one direction only.
add_edge_oriented(adj, node1, node2, element) ==
    add_arch(adj, node1, node2, element)

\* RegularFrameBuilder.__add_element: the arch and its reverse
add_edge(adj, node1, node2, element) ==
    add_arch(add_arch(adj, node1, node2, element), node2, node1, element)

\* Graph.get_node_elements: (node, neighbour, element) triples
get_node_elements(adj, node) == {<<node, nb[1], nb[2]>> : nb \in adj[node]}

(***************************************************************************)
(* build_frame: for each floor, the beams of the floor span by span, then  *)
(* the columns below it vertical by vertical; each element is requested    *)
(* from the builder's ElementCollection and put on the graph.              *)
(***************************************************************************)
StoreyBeamOps(b, data, floor) ==
    [i \in 1 .. spans(data) |->
        LET span == i - 1
            node == span + ((floor + 1) * verticals(data))
            beam_data == beam_length(b, data, floor, span)
        IN  [kind |-> "beam", node1 |-> node, node2 |-> node + 1,
             section |-> BeamSection(b, beam_data.tag),
             L |-> Round2(beam_data.length)]]

StoreyColumnOps(b, data, floor) ==
    [i \in 1 .. verticals(data) |->
        LET vertical == i - 1
            node == vertical + (floor * verticals(data))
            column_data == column_length(b, data, floor, vertical)
        IN  [kind |-> "column", node1 |-> node, node2 |-> node + verticals(data),
             section |-> ColumnSection(b, column_data.tag),
             L |-> Round2(column_data.length)]]

RECURSIVE BuildOps(_, _, _)
BuildOps(b, data, floor) ==
    IF floor >= floors(data) THEN <<>>
    ELSE StoreyBeamOps(b, data, floor) \o StoreyColumnOps(b, data, floor)
         \o BuildOps(b, data, floor + 1)

\* The state [pool, adj] after the requests ops made to collection coll.
RECURSIVE ApplyOps(_, _, _)
ApplyOps(ops, coll, st) ==
    IF ops = <<>> THEN st
    ELSE LET op == Head(ops)
             r == add_element(st.pool, coll, op.kind, op.section, op.L)
         IN  ApplyOps(Tail(ops), coll,
                      [pool |-> r.pool,
                       adj |-> add_edge(st.adj, op.node1, op.node2, r.ret)])

\* The elements an ElementCollection holds: get_columns() and get_beams().
PoolView(p, coll) == [k \in Kinds |-> get_elements(p, coll, k)]

\* RegularFrameBuilder.__init__: a new ElementCollection (collection b) and
\* an empty graph of len(loads) nodes.
NewBuilder(b, data) ==
    /\ builders[b].status = "none"
    /\ builders' = [builders EXCEPT ![b] =
            [status |-> "new", data |-> data, coll |-> b,
             adj |-> NewGraph(Size(data.loads))]]
    /\ UNCHANGED <<poolVars, lastSub, calcVars>>

\* RegularFrameBuilder.build_frame.  atReturn records what the builder's
\* collection held when build_frame returned.
BuildFrame(b) ==
    /\ builders[b].status = "new"
    /\ LET bd == builders[b]
           st == ApplyOps(BuildOps(b, bd.data, 0), bd.coll,
                          [pool |-> PoolState, adj |-> bd.adj])
       IN  /\ SetPool(st.pool)
           /\ builders' = [builders EXCEPT ![b] =
                   [status |-> "built", data |-> bd.data, coll |-> bd.coll,
                    adj |-> st.adj,
                    atReturn |-> PoolView(st.pool, bd.coll)]]
    /\ UNCHANGED <<requests, lastSub, calcVars>>

(***************************************************************************)
(* Subassemblies.                                                          *)
(***************************************************************************)
NodeTypes == {"internal", "external", "top_internal", "top_external", "base"}
INTERNAL_NODES == {"internal", "top_internal"}
TOP_NODES == {"top_external", "top_internal"}

\* RegularFrame.get_node_floor / get_node_vertical
get_node_floor(data, node) == node \div verticals(data)
get_node_vertical(data, node) == node % verticals(data)

\* RegularFrame.get_interstorey_height
get_interstorey_height(data, floor) ==
    IF floor = 0 THEN data.H[0] ELSE data.H[floor] - data.H[floor - 1]

\* RegularFrame.get_span_length
get_span_length(data, span) == data.L[span + 1] - data.L[span]

RECURSIVE SumFrom(_, _, _)
SumFrom(list, i, step) ==
    IF i \notin DOMAIN list THEN 0
    ELSE list[i] + SumFrom(list, i + step, step)

\* A variant of get_axial that sums the loads of every node from node on
\* (loads[node:]), whatever their vertical.
get_axial_every_node(data, node) == Round2(SumFrom(data.loads, node, 1))

\* RegularFrame.get_axial: round(sum(loads[node::verticals]), 2)
get_axial(data, node) == Round2(SumFrom(data.loads, node, verticals(data)))

\* A variant of get_delta_axial with the same sign on the two exterior
\* verticals.
get_delta_axial_unsigned(data, node) ==
    LET V == verticals(data)
        F == floors(data)
        f == get_node_floor(data, node)
        A == F * (F + 1) * (2 * F + 1) - f * (f - 1) * (2 * f - 1)
        B == F * (F + 1) - f * (f - 1)
    IN  IF get_node_vertical(data, node) # 0
           /\ get_node_vertical(data, node) # V - 1
        THEN [num |-> 0, den |-> 1]
        ELSE [num |-> (A - 3 * (f - 1) * B) * (3 * V - 2) * 1000,
              den |-> 3 * B * Last(data.L)]

\* RegularFrame.get_delta_axial, as an exact fraction [num, den] in 1/m:
\* direction * 4 / L[-1] * lambda_2 / lambda_1 * (3 V - 2) / 2 with
\* lambda_1 = B / (F (F + 1)) and lambda_2 = (A - 3 (f - 1) B) / (6 F (F + 1)).
get_delta_axial(data, node) ==
    LET V == verticals(data)
        F == floors(data)
        f == get_node_floor(data, node)
        A == F * (F + 1) * (2 * F + 1) - f * (f - 1) * (2 * f - 1)
        B == F * (F + 1) - f * (f - 1)
        direction_multiplier ==
            IF get_node_vertical(data, node) = 0 THEN 1 ELSE -1
    IN  IF get_node_vertical(data, node) # 0
           /\ get_node_vertical(data, node) # V - 1
        THEN [num |-> 0, den |-> 1]
        ELSE [num |-> direction_multiplier * (A - 3 * (f - 1) * B)
                        * (3 * V - 2) * 1000,
              den |-> 3 * B * Last(data.L)]

\* The keyword get_subassembly fills for a neighbour of node: the tests are
\* made in this order, the first that holds wins.
Slot(node, neighbour, V) ==
    IF neighbour = node + V THEN "above_column"
    ELSE IF neighbour = node - V THEN "below_column"
    ELSE IF neighbour = node - 1 THEN "left_beam"
    ELSE IF neighbour = node + 1 THEN "right_beam"
    ELSE "none"

\* A variant of _find_nodetype without the test of the column above.
find_nodetype_no_top(sub) ==
    IF sub.below_column = Null THEN "base"
    ELSE IF sub.left_beam = Null \/ sub.right_beam = Null
    THEN "external"
    ELSE "internal"

\* Subassembly._find_nodetype
find_nodetype(sub) ==
    IF sub.below_column = Null THEN "base"
    ELSE IF sub.above_column = Null
    THEN IF sub.left_beam = Null \/ sub.right_beam = Null
         THEN "top_external" ELSE "top_internal"
    ELSE IF sub.left_beam = Null \/ sub.right_beam = Null
    THEN "external"
    ELSE "internal"

\* Depth of the section of element id in heap h.
ElementDepth(h, id) == get_depth(h[id].section)

\* Subassembly.__post_init__: whether the constructor raises.  The test
\* compares the depth of the right beam with itself.
PostInitRaises(h, sub) ==
    /\ find_nodetype(sub) \in INTERNAL_NODES
    /\ ElementDepth(h, sub.right_beam) # ElementDepth(h, sub.right_beam)

\* SubassemblyFactory.get_subassembly followed by Subassembly.__post_init__
get_subassembly(h, data, adj, node) ==
    LET V == verticals(data)
        triples == get_node_elements(adj, node)
        filling(slot) == {t \in triples : Slot(t[1], t[2], V) = slot}
        field(slot) == IF filling(slot) = {} THEN Null
                       ELSE (CHOOSE t \in filling(slot) : TRUE)[3]
        halves(slot, length) == Cardinality(filling(slot)) * (length \div 2)
        node_floor == get_node_floor(data, node)
        vertical == get_node_vertical(data, node)
        column_len ==
              (IF filling("above_column") = {} THEN 0
               ELSE halves("above_column", get_interstorey_height(data, node_floor)))
            + (IF filling("below_column") = {} THEN 0
               ELSE halves("below_column", get_interstorey_height(data, node_floor - 1)))
        beam_len ==
              (IF filling("left_beam") = {} THEN 0
               ELSE halves("left_beam", get_span_length(data, vertical - 1)))
            + (IF filling("right_beam") = {} THEN 0
               ELSE halves("right_beam", get_span_length(data, vertical)))
        delta == get_delta_axial(data, node)
        fields == [node |-> node,
                   beam_length |-> Round2(beam_len),
                   column_length |-> Round2(column_len),
                   above_column |-> field("above_column"),
                   below_column |-> field("below_column"),
                   left_beam |-> field("left_beam"),
                   right_beam |-> field("right_beam"),
                   axial |-> get_axial(data, node),
                   delta_axial |-> delta]
    IN  [sub |-> [node |-> fields.node,
                  delta_axial |-> fields.delta_axial,
                  axial |-> fields.axial,
                  beam_length |-> fields.beam_length,
                  column_length |-> fields.column_length,
                  left_beam |-> fields.left_beam,
                  right_beam |-> fields.right_beam,
                  below_column |-> fields.below_column,
                  above_column |-> fields.above_column,
                  node_type |-> find_nodetype(fields),
                  upwind |-> delta.num > 0,
                  downwind |-> delta.num < 0],
         raised |-> PostInitRaises(h, fields)]

NoSub == [frame |-> Null]

\* A call of get_subassembly(node) on the factory of the built frame b.
GetSubassembly(b, node) ==
    /\ builders[b].status = "built"
    /\ node \in DOMAIN builders[b].adj
    /\ LET r == get_subassembly(heap, builders[b].data, builders[b].adj, node)
       IN  lastSub' = [frame |-> b, node |-> node,
                       sub |-> r.sub, raised |-> r.raised]
    /\ UNCHANGED <<poolVars, builders, calcVars>>

(***************************************************************************)
(* Specification of the element pool alone: add requests made to one       *)
(* ElementCollection with arbitrary sections and lengths.                  *)
(***************************************************************************)
PoolSections ==
    {[owner |-> 1, kind |-> "beam", tag |-> 1],
     [owner |-> 1, kind |-> "column", tag |-> 1],
     [owner |-> 1, kind |-> "beam", tag |-> 2]}

\* 2996, 3000 and 3005 round to 3000 (the tie goes to the even 300), 3015 to 3020.
PoolLengths == {2996, 3005, 3015}

AddRequest(coll, kind, section, L) ==
    /\ Cardinality(requests) < MaxRequests
    /\ LET r == add_element(PoolState, coll, kind, section, L)
       IN  /\ SetPool(r.pool)
           /\ requests' = requests \cup
                {[coll |-> coll, kind |-> kind, section |-> section,
                  L |-> L, ret |-> r.ret]}
    /\ UNCHANGED <<frameVars, calcVars>>

InitNoFrames ==
    /\ builders = [b \in Frames |-> [status |-> "none"]]
    /\ lastSub = NoSub

\* No hierarchy, curve sum, main process or mechanism call has been made.
NoCall == [called |-> FALSE]

InitNoHier == hier = NoCall
InitNoSum  == capSum = NoCall
InitNoMain == mainRun = NoCall
InitNoMech == mechRun = NoCall
InitNoFactory == factory = NoCall
InitNoElem == elemRun = NoCall
InitNoSect == sectRun = NoCall
InitNoJoint == jointRun = NoCall
InitNoUnits == InitNoFactory /\ InitNoElem /\ InitNoSect /\ InitNoJoint

InitPoolSpec ==
    InitPool /\ InitNoFrames /\ InitNoHier /\ InitNoSum /\ InitNoMain /\ InitNoMech /\ InitNoUnits

NextPool ==
    \E kind \in Kinds, section \in PoolSections, L \in PoolLengths :
        AddRequest(1, kind, section, L)

SpecPool == InitPoolSpec /\ [][NextPool]_vars

SameRequestData(r1, r2) ==
    /\ get_section_data(r1.section) = get_section_data(r2.section)
    /\ Round2(r1.L) = Round2(r2.L)

InitFrameSpec ==
    InitPool /\ InitNoFrames /\ InitNoHier /\ InitNoSum /\ InitNoMain /\ InitNoMech /\ InitNoUnits

NextFrame ==
    \/ \E b \in Frames, data \in FrameInputs :
            /\ \A a \in Frames : a < b => builders[a].status = "built"
            /\ NewBuilder(b, data)
    \/ \E b \in Frames : BuildFrame(b)
    \/ \E b \in Frames, node \in 0 .. (MaxVerticals * (MaxFloors + 1)) - 1 :
            GetSubassembly(b, node)

SpecFrame == InitFrameSpec /\ [][NextFrame]_vars

BuiltFrames == {b \in Frames : builders[b].status = "built"}

\* The neighbours of node in adj, and the elements on the edge node -> to.
Neighbours(adj, node) == {nb[1] : nb \in adj[node]}
EdgeElements(adj, node, to) ==
    IF to \in DOMAIN adj THEN {nb[2] : nb \in {x \in adj[node] : x[1] = to}}
    ELSE {}
TheEdgeElement(adj, node, to) ==
    IF EdgeElements(adj, node, to) = {} THEN Null
    ELSE CHOOSE e \in EdgeElements(adj, node, to) : TRUE

\* C8: after build_frame on a frame of V verticals and F floors the node ids
\* are exactly 0 .. V*(F+1)-1; every node has exactly one column edge to the
\* node above it unless it is on the top floor and exactly one to the node
\* below it unless it is on the ground floor; it has at most one beam edge to
\* its left and at most one to its right, none on the ground floor, and no
\* other edge; and (j, e) is in the adjacency of i iff (i, e) is in that of j.
C8_GraphInvariants ==
    \A b \in BuiltFrames :
        LET data == builders[b].data
            adj == builders[b].adj
            V == Size(data.L)
            F == Size(data.H)
            above(n) == EdgeElements(adj, n, n + V)
            below(n) == EdgeElements(adj, n, n - V)
            left(n) == IF n % V = 0 THEN {} ELSE EdgeElements(adj, n, n - 1)
            right(n) == IF n % V = V - 1 THEN {} ELSE EdgeElements(adj, n, n + 1)
            allowed(n) ==
                {n + V, n - V}
                \cup (IF n % V = 0 THEN {} ELSE {n - 1})
                \cup (IF n % V = V - 1 THEN {} ELSE {n + 1})
        IN  /\ DOMAIN adj = 0 .. (V * (F + 1)) - 1
            /\ \A n \in DOMAIN adj :
                /\ Cardinality(above(n)) = (IF n \div V < F THEN 1 ELSE 0)
                /\ Cardinality(below(n)) = (IF n \div V > 0 THEN 1 ELSE 0)
                /\ Cardinality(left(n)) <= 1
                /\ Cardinality(right(n)) <= 1
                /\ (n \div V = 0) => (left(n) = {} /\ right(n) = {})
                /\ Neighbours(adj, n) \subseteq allowed(n)
                /\ \A nb \in adj[n] : <<n, nb[2]>> \in adj[nb[1]]

\* A frame with an interior vertical and an intermediate floor is built, and
\* an interior node of its intermediate floor has all four edges.
C8_Witness ==
    \E b \in BuiltFrames :
        LET V == Size(builders[b].data.L)
        IN  /\ V >= 3
            /\ Size(builders[b].data.H) >= 2
            /\ Cardinality(builders[b].adj[V + 1]) = 4

\* The node type a node of floor f and vertical v has by its position.
TypeByPosition(f, v, V, F) ==
    IF f = 0 THEN "base"
    ELSE IF f = F
    THEN IF v = 0 \/ v = V - 1 THEN "top_external" ELSE "top_internal"
    ELSE IF v = 0 \/ v = V - 1 THEN "external"
    ELSE "internal"

\* C7: for a built frame with V >= 2 verticals and F >= 1 floors, the
\* subassembly derived for node id = f*V + v has the node type of its
\* position (base iff f = 0, top iff f = F, external iff v is 0 or V-1), and
\* its left beam, right beam, above column and below column are exactly the
\* elements on the edges to id-1, id+1, id+V and id-V (none where there is
\* no such edge).
C7_ClassifiedByPosition ==
    (lastSub.frame # Null) =>
        LET data == builders[lastSub.frame].data
            adj == builders[lastSub.frame].adj
            V == Size(data.L)
            F == Size(data.H)
            id == lastSub.node
            sub == lastSub.sub
        IN  /\ sub.node_type = TypeByPosition(id \div V, id % V, V, F)
            /\ sub.left_beam = TheEdgeElement(adj, id, id - 1)
            /\ sub.right_beam = TheEdgeElement(adj, id, id + 1)
            /\ sub.above_column = TheEdgeElement(adj, id, id + V)
            /\ sub.below_column = TheEdgeElement(adj, id, id - V)

\* The subassembly of an internal node, with four distinct members, was
\* derived.
C7_Witness ==
    /\ lastSub.frame # Null
    /\ lastSub.sub.node_type = "internal"
    /\ lastSub.sub.left_beam # Null
    /\ lastSub.sub.above_column # lastSub.sub.left_beam

\* Elements on the edges of the graph of frame b.
FrameElements(b) ==
    UNION {{nb[2] : nb \in builders[b].adj[n]} : n \in DOMAIN builders[b].adj}

\* C6: the element pool is per frame and write-once: what the collection of
\* a built frame holds is what it held when build_frame returned, and no
\* element is on the graphs of two different frames.
C6_PoolPerFrameWriteOnce ==
    /\ \A b \in BuiltFrames :
            PoolView(PoolState, builders[b].coll) = builders[b].atReturn
    /\ \A a, b \in BuiltFrames :
            a # b => FrameElements(a) \cap FrameElements(b) = {}

\* C3: the construction of the subassembly of an internal node (internal or
\* top_internal) fails iff its left beam and its right beam have sections of
\* different depths.
C3_MismatchedDepthsRaise ==
    (lastSub.frame # Null /\ lastSub.sub.node_type \in INTERNAL_NODES) =>
        (lastSub.raised <=>
            ElementDepth(heap, lastSub.sub.left_beam)
                # ElementDepth(heap, lastSub.sub.right_beam))

(***************************************************************************)
(* The hierarchy of strength of a subassembly.                             *)
(*                                                                         *)
(* Floating-point values are exact fractions [nan, n, d] with d > 0, or    *)
(* NaN (nan = TRUE, with which every comparison is false).                 *)
(***************************************************************************)
NaN == [nan |-> TRUE, n |-> 0, d |-> 1]
Num(n) == [nan |-> FALSE, n |-> n, d |-> 1]
Frac(n, d) == IF d < 0 THEN [nan |-> FALSE, n |-> -n, d |-> -d]
              ELSE [nan |-> FALSE, n |-> n, d |-> d]

\* a < b, a = b and a <= b as Python evaluates them on floats
Lt(a, b) == ~a.nan /\ ~b.nan /\ a.n * b.d < b.n * a.d
Eq(a, b) == ~a.nan /\ ~b.nan /\ a.n * b.d = b.n * a.d
Le(a, b) == Lt(a, b) \/ Eq(a, b)
\* a > b
Gt(a, b) == Lt(b, a)

Neg(a) == IF a.nan THEN NaN ELSE Frac(-a.n, a.d)
Sub(a, b) == IF a.nan \/ b.nan THEN NaN ELSE Frac(a.n * b.d - b.n * a.d, a.d * b.d)
Mul(a, b) == IF a.nan \/ b.nan THEN NaN ELSE Frac(a.n * b.n, a.d * b.d)
\* a / b with b finite and not zero
Div(a, b) == IF a.nan \/ b.nan THEN NaN ELSE Frac(a.n * b.d, a.d * b.n)

RECURSIVE GCD(_, _)
GCD(a, b) == IF b = 0 THEN a ELSE GCD(b, a % b)

\* The same float, as an irreducible fraction
Norm(x) ==
    IF x.nan \/ x.d = 0 \/ x.n = 0 THEN x
    ELSE LET g == GCD(IF x.n < 0 THEN -x.n ELSE x.n, x.d)
         IN  Frac(x.n \div g, x.d \div g)

MulN(a, b) == Norm(Mul(a, b))

Directions == {1, -1}       \* Direction.Positive, Direction.Negative

\* flip_direction
flip_direction(direction) == IF direction = 1 THEN -1 ELSE 1

\* Subassembly.delta_axial_moment: the demand line, the moment that produces
\* the axial load axial.
delta_axial_moment(sub, axial, direction) ==
    LET delta == IF direction = 1 THEN sub.delta_axial ELSE Neg(sub.delta_axial)
        delta_N == IF Eq(delta, Num(0)) THEN Frac(1, 10 ^ 6) ELSE delta
    IN  Mul(Div(Num(1), Neg(delta_N)), Sub(axial, sub.axial))

NoKey == "none"      \* weakest = None

\* A variant of find_weakest that keeps the greatest capacity.
RECURSIVE find_strongest_from(_, _, _)
find_strongest_from(keys, capacities, weakest) ==
    IF keys = <<>> THEN weakest
    ELSE find_strongest_from(Tail(keys), capacities,
            IF weakest = NoKey \/ Gt(capacities[Head(keys)], capacities[weakest])
            THEN Head(keys) ELSE weakest)

\* find_weakest: the loop over capacities.keys(), from the key at keys[1]
RECURSIVE find_weakest_from(_, _, _)
find_weakest_from(keys, capacities, weakest) ==
    IF keys = <<>> THEN weakest
    ELSE find_weakest_from(Tail(keys), capacities,
            IF weakest = NoKey \/ Lt(capacities[Head(keys)], capacities[weakest])
            THEN Head(keys) ELSE weakest)

find_weakest(keys, capacities) == find_weakest_from(keys, capacities, NoKey)

Variants == {"tot", "avg", "low"}     \* SubHyerarchyAlg

\* The keys of the capacities dict, in insertion order.
SeqIf(cond, x) == IF cond THEN <<x>> ELSE <<>>
CandidateKeys(variant, sub) ==
    IF variant \in {"tot", "avg"} THEN <<"joint", "column", "beam">>
    ELSE SeqIf(sub.left_beam # Null, "leftbeam")
         \o SeqIf(sub.right_beam # Null, "rightbeam")
         \o SeqIf(sub.above_column # Null, "abovecolumn")
         \o <<"belowcolumn", "joint">>

SeqRange(seq) == {seq[i] : i \in DOMAIN seq}

\* (x is not None) as an int
Present(x) == IF x # Null THEN 1 ELSE 0

\* Yielding and ultimate rotations, in 1e-4 rad.
EXTERNAL_NODE_ROTATION_CAPACITIES == <<50, 100>>
INTERNAL_NODE_ROTATION_CAPACITIES == <<75, 150>>

\* get_node_rotations
get_node_rotations(node_type) ==
    IF node_type \in INTERNAL_NODES THEN INTERNAL_NODE_ROTATION_CAPACITIES
    ELSE EXTERNAL_NODE_ROTATION_CAPACITIES

\* moment_rotation(...).rot_y and rot_c of the members of the subassembly
\* under test, by member handle.
\* Every member has rot_y <= rot_c, as BasicElement.moment_rotation returns.
MemberRotationTables ==
    <<<<[rot_y |-> 40, rot_c |-> 200], [rot_y |-> 60, rot_c |-> 180],
        [rot_y |-> 30, rot_c |-> 120], [rot_y |-> 50, rot_c |-> 110]>>,
      <<[rot_y |-> 10, rot_c |-> 20], [rot_y |-> 100, rot_c |-> 200],
        [rot_y |-> 30, rot_c |-> 120], [rot_y |-> 50, rot_c |-> 110]>>>>
MemberRotations == hier.rotations
rot_y_of(member, default) == IF member = Null THEN default ELSE MemberRotations[member].rot_y
rot_c_of(member, default) == IF member = Null THEN default ELSE MemberRotations[member].rot_c

\* A variant of the rotations of the weakest element that takes the minimum
\* yield rotation in the average hierarchy too.
Rotations_min_yield(variant, sub, weakest) ==
    LET one == 10000
        columns_number == Present(sub.above_column) + 1
        beam_number == Present(sub.left_beam) + Present(sub.right_beam)
        pair(y, c) == [rot_y |-> y, rot_c |-> c]
        single(member) == pair(Frac(MemberRotations[member].rot_y, 1),
                               Frac(MemberRotations[member].rot_c, 1))
    IN  IF weakest = "joint"
        THEN pair(Frac(get_node_rotations(sub.node_type)[1], 1),
                  Frac(get_node_rotations(sub.node_type)[2], 1))
        ELSE IF weakest = "beam"
        THEN pair(IF variant \in {"tot", "avg"}
                  THEN Frac(Min2(rot_y_of(sub.left_beam, one),
                                 rot_y_of(sub.right_beam, one)), 1)
                  ELSE Frac(rot_y_of(sub.left_beam, 0)
                            + rot_y_of(sub.right_beam, 0), beam_number),
                  Frac(Min2(rot_c_of(sub.left_beam, one),
                            rot_c_of(sub.right_beam, one)), 1))
        ELSE IF weakest = "column"
        THEN pair(IF variant \in {"tot", "avg"}
                  THEN Frac(Min2(rot_y_of(sub.above_column, one),
                                 rot_y_of(sub.below_column, one)), 1)
                  ELSE Frac(rot_y_of(sub.above_column, 0)
                            + rot_y_of(sub.below_column, 0), columns_number),
                  Frac(Min2(rot_c_of(sub.above_column, one),
                            rot_c_of(sub.below_column, one)), 1))
        ELSE IF weakest = "leftbeam" THEN single(sub.left_beam)
        ELSE IF weakest = "rightbeam" THEN single(sub.right_beam)
        ELSE IF weakest = "abovecolumn" THEN single(sub.above_column)
        ELSE single(sub.below_column)

\* The rotations of the weakest element: [rot_y, rot_c] as fractions.
Rotations(variant, sub, weakest) ==
    LET one == 10000
        columns_number == Present(sub.above_column) + 1
        beam_number == Present(sub.left_beam) + Present(sub.right_beam)
        pair(y, c) == [rot_y |-> y, rot_c |-> c]
        single(member) == pair(Frac(MemberRotations[member].rot_y, 1),
                               Frac(MemberRotations[member].rot_c, 1))
    IN  IF weakest = "joint"
        THEN pair(Frac(get_node_rotations(sub.node_type)[1], 1),
                  Frac(get_node_rotations(sub.node_type)[2], 1))
        ELSE IF weakest = "beam"
        THEN pair(IF variant = "tot"
                  THEN Frac(Min2(rot_y_of(sub.left_beam, one),
                                 rot_y_of(sub.right_beam, one)), 1)
                  ELSE Frac(rot_y_of(sub.left_beam, 0)
                            + rot_y_of(sub.right_beam, 0), beam_number),
                  Frac(Min2(rot_c_of(sub.left_beam, one),
                            rot_c_of(sub.right_beam, one)), 1))
        ELSE IF weakest = "column"
        THEN pair(IF variant = "tot"
                  THEN Frac(Min2(rot_y_of(sub.above_column, one),
                                 rot_y_of(sub.below_column, one)), 1)
                  ELSE Frac(rot_y_of(sub.above_column, 0)
                            + rot_y_of(sub.below_column, 0), columns_number),
                  Frac(Min2(rot_c_of(sub.above_column, one),
                            rot_c_of(sub.below_column, one)), 1))
        ELSE IF weakest = "leftbeam" THEN single(sub.left_beam)
        ELSE IF weakest = "rightbeam" THEN single(sub.right_beam)
        ELSE IF weakest = "abovecolumn" THEN single(sub.above_column)
        ELSE single(sub.below_column)

\* total_hierarchy / average_hierarchy / single_hierarchy, selected by
\* get_hierarchy.  roots[k] is what analytical_intersection (fsolve) returned
\* as the equilibrium axial load of candidate k.
get_hierarchy(variant, sub, direction, roots) ==
    LET columns_number == Present(sub.above_column) + 1
        beam_number == Present(sub.left_beam) + Present(sub.right_beam)
        keys == CandidateKeys(variant, sub)
        capacities == [k \in SeqRange(keys) |->
                          delta_axial_moment(sub, roots[k], direction)]
        weakest == find_weakest(keys, capacities)
        rot == Rotations(variant, sub, weakest)
    IN  IF sub.node_type = "base"
        THEN [raised |-> "NotImplementedError", capacities |-> <<>>]
        ELSE IF weakest = NoKey
        THEN [raised |-> "AssertionError", capacities |-> capacities]
        ELSE IF beam_number = 0
        THEN [raised |-> "ZeroDivisionError", capacities |-> capacities]
        ELSE [raised |-> "no", capacities |-> capacities,
              beam_eq |-> Mul(Frac(columns_number, beam_number),
                              capacities[weakest]),
              rot_y |-> rot.rot_y, rot_c |-> rot.rot_c,
              weakest |-> weakest]

(***************************************************************************)
(* Specification of get_hierarchy on subassemblies of every shape.         *)
(***************************************************************************)
MaxRootStep == 1    \* equilibrium axial loads lie within this many steps of the node's

\* Member handles of the subassembly under test (indices of MemberRotations)
LeftBeam == 1
RightBeam == 2
AboveColumn == 3
BelowColumn == 4

HierAxials == {Num(250), NaN}
HierDeltaAxials == {Frac(-2, 3), Num(0), Frac(2, 3)}
RootGrid == {Num(250 + 3 * o) : o \in -MaxRootStep .. MaxRootStep}

\* Subassembly(...) with the given members, after __post_init__
HierSub(left, right, above, below, axial, delta) ==
    LET members == [left_beam |-> IF left THEN LeftBeam ELSE Null,
                    right_beam |-> IF right THEN RightBeam ELSE Null,
                    above_column |-> IF above THEN AboveColumn ELSE Null,
                    below_column |-> IF below THEN BelowColumn ELSE Null]
    IN  [node_type |-> find_nodetype(members),
         axial |-> axial, delta_axial |-> delta,
         left_beam |-> members.left_beam, right_beam |-> members.right_beam,
         above_column |-> members.above_column,
         below_column |-> members.below_column]

\* A call get_hierarchy may be given, with what the root finder returns for
\* its candidates.
HierCall(variant, sub, direction, roots, rotations) ==
    [called |-> FALSE, variant |-> variant, sub |-> sub,
     direction |-> direction, roots |-> roots, rotations |-> rotations]

HierRootChoices(variant, sub) ==
    [IF sub.node_type = "base" THEN {}
     ELSE SeqRange(CandidateKeys(variant, sub)) -> RootGrid]

\* What the hierarchy functions report about their three (or more) calls of
\* analytical_intersection: they keep the returned floats and nothing else.
hierarchy_diagnostics(variant, sub, roots) == {}

\* subassembly.get_hierarchy(direction)
GetHierarchy ==
    /\ ~hier.called
    /\ hier' = [f \in DOMAIN hier \cup {"out", "diagnostics"} |->
                    IF f = "called" THEN TRUE
                    ELSE IF f = "out"
                    THEN get_hierarchy(hier.variant, hier.sub,
                                       hier.direction, hier.roots)
                    ELSE IF f = "diagnostics"
                    THEN hierarchy_diagnostics(hier.variant, hier.sub, hier.roots)
                    ELSE hier[f]]
    /\ UNCHANGED <<poolVars, frameVars, capSum, mainRun, mechRun, unitVars>>

InitHierSpec ==
    /\ InitPool /\ InitNoFrames /\ InitNoSum /\ InitNoMain /\ InitNoMech /\ InitNoUnits
    /\ \E variant \in Variants, left \in BOOLEAN, right \in BOOLEAN,
          above \in BOOLEAN, below \in BOOLEAN, axial \in HierAxials,
          delta \in HierDeltaAxials, direction \in Directions :
            LET sub == HierSub(left, right, above, below, axial, delta)
            IN  \E roots \in HierRootChoices(variant, sub),
                   table \in DOMAIN MemberRotationTables :
                    hier = HierCall(variant, sub, direction, roots,
                                    MemberRotationTables[table])

NextHier == GetHierarchy

SpecHier == InitHierSpec /\ [][NextHier]_vars

Returned == hier.called /\ hier.out.raised = "no"

\* The candidates get_hierarchy evaluates for a subassembly: joint, column
\* and beam in the total and average variants; the joint and every member
\* present in the single variant.
ExpectedCandidates(variant, sub) ==
    IF variant \in {"tot", "avg"} THEN {"joint", "column", "beam"}
    ELSE {"joint", "belowcolumn"}
         \cup (IF sub.left_beam # Null THEN {"leftbeam"} ELSE {})
         \cup (IF sub.right_beam # Null THEN {"rightbeam"} ELSE {})
         \cup (IF sub.above_column # Null THEN {"abovecolumn"} ELSE {})

\* The demand line at axial load axial: (axial - sub.axial) / -delta_N.
DemandLine(sub, direction, axial) ==
    LET signed == IF direction = 1 THEN sub.delta_axial
                  ELSE Neg(sub.delta_axial)
    IN  IF Eq(signed, Num(0))
        THEN Mul(Num(-(10 ^ 6)), Sub(axial, sub.axial))
        ELSE Div(Sub(axial, sub.axial), Neg(signed))

\* a and b are the same float: equal, or both NaN
Same(a, b) == Eq(a, b) \/ (a.nan /\ b.nan)

\* C1: for every non-base subassembly, push direction and hierarchy variant,
\* the candidates are the demand line evaluated at each candidate's
\* equilibrium axial load; the reported weakest element is one of them and no
\* candidate is smaller than it (it attains the minimum); and the returned
\* equivalent-beam moment is that minimum scaled by the conversion factor:
\* beam_eq * beam number = minimum * column number.
C1_BeamEqIsScaledMinimum ==
    Returned =>
        LET sub == hier.sub
            out == hier.out
            caps == out.capacities
            columns == IF sub.above_column # Null THEN 2 ELSE 1
            beams == (IF sub.left_beam # Null THEN 1 ELSE 0)
                     + (IF sub.right_beam # Null THEN 1 ELSE 0)
        IN  /\ DOMAIN caps = ExpectedCandidates(hier.variant, sub)
            /\ \A k \in DOMAIN caps :
                    Same(caps[k], DemandLine(sub, hier.direction, hier.roots[k]))
            /\ out.weakest \in DOMAIN caps
            /\ \A k \in DOMAIN caps : ~Lt(caps[k], caps[out.weakest])
            /\ (\A k \in DOMAIN caps : ~caps[k].nan) =>
                    \A k \in DOMAIN caps : Le(caps[out.weakest], caps[k])
            /\ Same(Mul(out.beam_eq, Num(beams)),
                    Mul(caps[out.weakest], Num(columns)))

\* A hierarchy was returned for an internal node in the single variant, all
\* five candidates finite, the weakest one strictly below the joint and the
\* left beam, and the conversion factor not 1.
C1_Witness ==
    /\ Returned
    /\ hier.variant = "low"
    /\ hier.sub.node_type = "top_internal"
    /\ \A k \in DOMAIN hier.out.capacities : ~hier.out.capacities[k].nan
    /\ Lt(hier.out.capacities[hier.out.weakest], hier.out.capacities["joint"])
    /\ Lt(hier.out.capacities[hier.out.weakest], hier.out.capacities["leftbeam"])
    /\ hier.out.weakest = "belowcolumn"

\* C4: when every candidate of a non-base subassembly is NaN, get_hierarchy
\* aborts with an error instead of returning a hierarchy.
C4_NoFiniteCandidateAborts ==
    (/\ hier.called
     /\ hier.sub.node_type # "base"
     /\ \A k \in DOMAIN hier.out.capacities : hier.out.capacities[k].nan)
        => hier.out.raised # "no"

(***************************************************************************)
(* FrameCapacity: a capacity curve [name, mass, disp, base_shear], disp    *)
(* and base_shear parallel lists (sequences of floats).                    *)
(***************************************************************************)
Add(a, b) == IF a.nan \/ b.nan THEN NaN ELSE Frac(a.n * b.d + b.n * a.d, a.d * b.d)

\* A variant of np.interp with a curve held at its last value beyond its
\* last point (right = fp[-1], the default of np.interp).
RECURSIVE interp_hold_last(_, _, _)
interp_hold_last(x, xp, fp) ==
    IF Le(x, xp[1]) THEN fp[1]
    ELSE IF Len(xp) = 1 THEN fp[1]
    ELSE IF Le(x, xp[2])
    THEN Add(fp[1], Div(Mul(Sub(fp[2], fp[1]), Sub(x, xp[1])), Sub(xp[2], xp[1])))
    ELSE interp_hold_last(x, Tail(xp), Tail(fp))

\* A variant of np.interp with the value 0 from the last point on, instead
\* of beyond it.
RECURSIVE interp_zero_from_last(_, _, _)
interp_zero_from_last(x, xp, fp) ==
    IF Len(xp) = 1 THEN (IF Lt(x, xp[1]) THEN fp[1] ELSE Num(0))
    ELSE IF Le(x, xp[1]) THEN fp[1]
    ELSE IF Lt(x, xp[2])
    THEN Add(fp[1], Div(Mul(Sub(fp[2], fp[1]), Sub(x, xp[1])), Sub(xp[2], xp[1])))
    ELSE interp_zero_from_last(x, Tail(xp), Tail(fp))

\* np.interp(x, xp, fp, right=0.) for increasing xp: fp[0] up to xp[0],
\* linear between two points, fp[-1] at xp[-1] and 0 beyond it.
RECURSIVE interp(_, _, _)
interp(x, xp, fp) ==
    IF Le(x, xp[1]) THEN fp[1]
    ELSE IF Len(xp) = 1 THEN Num(0)
    ELSE IF Le(x, xp[2])
    THEN Add(fp[1], Div(Mul(Sub(fp[2], fp[1]), Sub(x, xp[1])), Sub(xp[2], xp[1])))
    ELSE interp(x, Tail(xp), Tail(fp))

\* sorted(set(values)): the elements of a set of floats in increasing order
RECURSIVE SortedSeq(_)
SortedSeq(values) ==
    IF values = {} THEN <<>>
    ELSE LET least == CHOOSE v \in values : \A w \in values : Le(v, w)
         IN  <<least>> \o SortedSeq(values \ {least})

\* FrameCapacity.__mul__
FrameCapacity_mul(self, other) ==
    [name |-> self.name,
     mass |-> Mul(self.mass, other),
     disp |-> self.disp,
     base_shear |-> [i \in DOMAIN self.base_shear |-> Mul(self.base_shear[i], other)]]

\* FrameCapacity.__add__
FrameCapacity_add(self, other) ==
    LET disps == SortedSeq(SeqRange(self.disp) \cup SeqRange(other.disp))
        self_bs == [i \in DOMAIN disps |-> interp(disps[i], self.disp, self.base_shear)]
        other_bs == [i \in DOMAIN disps |-> interp(disps[i], other.disp, other.base_shear)]
    IN  [name |-> <<self.name, "+", other.name>>,
         mass |-> Add(self.mass, other.mass),
         disp |-> disps,
         base_shear |-> [i \in DOMAIN disps |-> Add(self_bs[i], other_bs[i])]]

(***************************************************************************)
(* Specification of FrameCapacity.__add__ on pairs of curves.              *)
(***************************************************************************)
MaxDisp == 2        \* displacement breakpoints are among 0 .. MaxDisp
ShearValues == {0, 5, 10}
CurveNames == <<"A", "B">>

\* The curves with at least two breakpoints, in increasing order.
Curve(name, mass, points, shears) ==
    LET disp == SortedSeq({Num(d) : d \in points})
    IN  [name |-> name, mass |-> Num(mass), disp |-> disp,
         base_shear |-> [i \in DOMAIN disp |-> Num(shears[i])]]

AddCurves ==
    /\ ~capSum.called
    /\ capSum' = [called |-> TRUE, a |-> capSum.a, b |-> capSum.b,
                  out |-> FrameCapacity_add(capSum.a, capSum.b)]
    /\ UNCHANGED <<poolVars, frameVars, hier, mainRun, mechRun, unitVars>>

InitSumSpec ==
    /\ InitPool /\ InitNoFrames /\ InitNoHier /\ InitNoMain /\ InitNoMech /\ InitNoUnits
    /\ \E pa \in SUBSET (0 .. MaxDisp), pb \in SUBSET (0 .. MaxDisp) :
        /\ Cardinality(pa) >= 2
        /\ Cardinality(pb) >= 2
        /\ \E sa \in [1 .. Cardinality(pa) -> ShearValues],
              sb \in [1 .. Cardinality(pb) -> ShearValues] :
                capSum = [called |-> FALSE,
                          a |-> Curve(CurveNames[1], 3, pa, sa),
                          b |-> Curve(CurveNames[2], 4, pb, sb)]

NextSum == AddCurves

SpecSum == InitSumSpec /\ [][NextSum]_vars

\* The shear of a curve at displacement x: linear between the two
\* breakpoints around x; beyond takes the value the curve has past its last
\* breakpoint.
ShearAt(curve, x, beyond) ==
    LET disp == curve.disp
        bs == curve.base_shear
        last == Len(disp)
    IN  IF Lt(disp[last], x) THEN beyond
        ELSE IF Le(x, disp[1]) THEN bs[1]
        ELSE LET i == CHOOSE j \in 1 .. last - 1 :
                          Lt(disp[j], x) /\ Le(x, disp[j + 1])
             IN  Add(bs[i], Div(Mul(Sub(bs[i + 1], bs[i]), Sub(x, disp[i])),
                                Sub(disp[i + 1], disp[i])))

LastShear(curve) == curve.base_shear[Len(curve.base_shear)]

\* The result has the sorted union of the breakpoints and the summed mass.
SumBreakpointsAndMass ==
    LET out == capSum.out
    IN  /\ SeqRange(out.disp) = SeqRange(capSum.a.disp) \cup SeqRange(capSum.b.disp)
        /\ \A i \in 1 .. Len(out.disp) - 1 : Lt(out.disp[i], out.disp[i + 1])
        /\ Len(out.base_shear) = Len(out.disp)
        /\ Eq(out.mass, Add(capSum.a.mass, capSum.b.mass))

\* C2 as stated: the sum of two curves has the sorted union of their
\* breakpoints, the sum of their masses and, at each breakpoint, the sum of
\* the two curves interpolated there, each curve held flat at its last base
\* shear beyond its last displacement point.
C2_SumHeldFlat ==
    capSum.called =>
        /\ SumBreakpointsAndMass
        /\ \A i \in DOMAIN capSum.out.disp :
              Eq(capSum.out.base_shear[i],
                 Add(ShearAt(capSum.a, capSum.out.disp[i], LastShear(capSum.a)),
                     ShearAt(capSum.b, capSum.out.disp[i], LastShear(capSum.b))))

\* C2 (amended): the same, with each curve contributing zero base shear
\* beyond its last displacement point.
C2_SumZeroBeyondLast ==
    capSum.called =>
        /\ SumBreakpointsAndMass
        /\ \A i \in DOMAIN capSum.out.disp :
              Eq(capSum.out.base_shear[i],
                 Add(ShearAt(capSum.a, capSum.out.disp[i], Num(0)),
                     ShearAt(capSum.b, capSum.out.disp[i], Num(0))))

\* The sum of A (disp [0,1,2], shear [0,10,10]) and B (disp [0,1], shear
\* [0,5]) was computed: a breakpoint of A lies beyond the last point of B.
C2_Witness ==
    /\ capSum.called
    /\ capSum.a.disp = <<Num(0), Num(1), Num(2)>>
    /\ capSum.a.base_shear = <<Num(0), Num(10), Num(10)>>
    /\ capSum.b.disp = <<Num(0), Num(1)>>
    /\ capSum.b.base_shear = <<Num(0), Num(5)>>
    /\ Eq(capSum.out.base_shear[3], Num(10))

(***************************************************************************)
(* The sidesway mechanisms.  A mechanism is called with the subassembly    *)
(* factory and the frame; what it returns is [raised, type, value].        *)
(***************************************************************************)
\* The public methods and properties of a RegularFrame (a Graph).
RegularFrameAttrs ==
    {"get_nodes", "add_node", "add_arch", "does_node_exist", "get_node_elements",
     "spans", "verticals", "floors", "floor_forces_distribution",
     "forces_effective_height", "get_node_id", "get_node_floor",
     "get_node_vertical", "get_node_position", "get_node_coordinates",
     "get_interstorey_height", "get_span_length", "get_delta_axial",
     "get_axial", "get_floor_height", "get_heights", "get_lengths",
     "get_effective_mass"}

\* Types whose values may be subscripted (x['moment'], x[-1]).
SubscriptableTypes == {"dict", "list"}

\* BasicElement.moment_rotation returns a MomentRotation dataclass.
MomentRotationType == "MomentRotation"

\* What the mechanisms read of a MomentRotation: the capacity moment and
\* the two rotations of a member.
ColumnMoment == Num(120)
ColumnRotations == [rot_y |-> Num(40), rot_c |-> Num(200)]

\* sum(values[0 .. n - 1]) of floats
RECURSIVE FloatSum(_, _)
FloatSum(values, n) ==
    IF n = 0 THEN Num(0) ELSE Add(FloatSum(values, n - 1), values[n - 1])

\* RegularFrame.floor_forces_distribution
floor_forces_distribution(data) ==
    LET force_height ==
            FloatSum([f \in DOMAIN data.H |-> Num(data.m[f] * data.H[f])], floors(data))
    IN  [f \in DOMAIN data.H |-> Div(Num(data.m[f] * data.H[f]), force_height)]

\* RegularFrame.forces_effective_height
forces_effective_height(data) ==
    FloatSum([f \in DOMAIN data.H |->
                 Mul(floor_forces_distribution(data)[f], Num(data.H[f]))],
             floors(data))

\* RegularFrame.get_effective_mass
get_effective_mass(data) ==
    LET mass_disp == FloatSum([f \in DOMAIN data.m |-> Num(data.m[f] * (f + 1))],
                              floors(data))
        mass_disp_sq ==
            FloatSum([f \in DOMAIN data.m |-> Num(data.m[f] * (f + 1) * (f + 1))],
                     floors(data))
    IN  Div(Mul(mass_disp, mass_disp), mass_disp_sq)

G == Frac(918, 100)     \* G = 9.18 in global_constants

Raises(error) == [raised |-> error]
Returns(type, value) == [raised |-> "no", type |-> type, value |-> value]

\* column_sidesway: the moment-rotations of the base columns are collected,
\* then subscripted.
column_sidesway(data, direction) ==
    IF MomentRotationType \notin SubscriptableTypes
    THEN Raises("TypeError")
    ELSE LET overturning_moment == Mul(Num(verticals(data)), ColumnMoment)
             H_eff == Div(Num(Last(data.H)), Num(2))
             length == Num(Round2(column_length(1, data, 0, 0).length))
         IN  Returns("FrameCapacity",
                [name |-> "Column Sidesway",
                 mass |-> get_effective_mass(data),
                 base_shear |-> <<Div(overturning_moment, H_eff),
                                  Div(overturning_moment, H_eff)>>,
                 disp |-> <<Mul(ColumnRotations.rot_y, length),
                            Mul(ColumnRotations.rot_c, length)>>])

\* beam_sidesway: the moment-rotation of the first base column is
\* subscripted as soon as it is computed.
beam_sidesway(data, direction) ==
    IF MomentRotationType \notin SubscriptableTypes
    THEN Raises("TypeError")
    ELSE LET overturning_moment == Mul(Num(verticals(data)), ColumnMoment)
             base_shear == Div(overturning_moment, forces_effective_height(data))
         IN  Returns("FrameCapacity",
                [name |-> "Beam Sidesway",
                 mass |-> get_effective_mass(data),
                 base_shear |-> <<base_shear, base_shear>>,
                 disp |-> <<Mul(ColumnRotations.rot_y, forces_effective_height(data)),
                            Mul(ColumnRotations.rot_c, forces_effective_height(data))>>])

\* mixed_sidesway: its first statement calls frame.get_node_count(); its
\* last builds a Capacity out of a scalar base shear.
mixed_sidesway(data, direction) ==
    IF "get_node_count" \notin RegularFrameAttrs
    THEN Raises("AttributeError")
    ELSE IF MomentRotationType \notin SubscriptableTypes
    THEN Raises("TypeError")
    ELSE LET overturning_moment == Mul(Num(verticals(data)), ColumnMoment)
             base_shear == Div(overturning_moment, forces_effective_height(data))
         IN  Returns("Capacity",
                [name |-> "Mixed Sidesway",
                 base_shear |-> base_shear,
                 acc_capacity |-> Div(Div(base_shear, get_effective_mass(data)), G),
                 yielding |-> Mul(ColumnRotations.rot_y, forces_effective_height(data)),
                 ultimate |-> Mul(ColumnRotations.rot_c, forces_effective_height(data))])

Mechanisms == {"column_sidesway", "beam_sidesway", "mixed_sidesway"}

CallMechanism ==
    /\ ~mechRun.called
    /\ mechRun' =
         [called |-> TRUE, mechanism |-> mechRun.mechanism,
          data |-> mechRun.data, direction |-> mechRun.direction,
          out |-> IF mechRun.mechanism = "column_sidesway"
                  THEN column_sidesway(mechRun.data, mechRun.direction)
                  ELSE IF mechRun.mechanism = "beam_sidesway"
                  THEN beam_sidesway(mechRun.data, mechRun.direction)
                  ELSE mixed_sidesway(mechRun.data, mechRun.direction)]
    /\ UNCHANGED <<poolVars, frameVars, hier, capSum, mainRun, unitVars>>

\* The frames the mechanisms are called on: the frame inputs, each also
\* with node loads that are the same on every vertical.
MirrorLoads(data) ==
    [data EXCEPT !.loads = [n \in DOMAIN data.loads |->
                               10 * ((n \div verticals(data)) + 1)]]

MechanismFrames == FrameInputs \cup {MirrorLoads(data) : data \in FrameInputs}

InitMechSpec ==
    /\ InitPool /\ InitNoFrames /\ InitNoHier /\ InitNoSum /\ InitNoMain /\ InitNoUnits
    /\ \E mechanism \in Mechanisms, data \in MechanismFrames, direction \in Directions :
          mechRun = [called |-> FALSE, mechanism |-> mechanism,
                     data |-> data, direction |-> direction]

NextMech == CallMechanism

SpecMech == InitMechSpec /\ [][NextMech]_vars

\* C10: every mechanism returns a FrameCapacity-shaped record: the fields
\* name, mass, disp and base_shear, with disp and base_shear lists of
\* exactly two entries.
C10_MechanismReturnsFrameCapacity ==
    mechRun.called =>
        /\ mechRun.out.raised = "no"
        /\ DOMAIN mechRun.out.value = {"name", "mass", "disp", "base_shear"}
        /\ DOMAIN mechRun.out.value.disp = 1 .. 2
        /\ DOMAIN mechRun.out.value.base_shear = 1 .. 2

\* C11: the base shear of column_sidesway, at both points of the curve, is
\* the sum over the ground-floor columns of the capacity moment of the
\* column divided by 0.5 times the total height of the frame.
C11_ColumnSideswayBaseShear ==
    (mechRun.called /\ mechRun.mechanism = "column_sidesway") =>
        /\ mechRun.out.raised = "no"
        /\ \A point \in 1 .. 2 :
              Eq(mechRun.out.value.base_shear[point],
                 Div(FloatSum([v \in 0 .. verticals(mechRun.data) - 1 |-> ColumnMoment],
                              verticals(mechRun.data)),
                     Div(Num(Last(mechRun.data.H)), Num(2))))

\* A frame of one span and one storey with the same load on its two verticals.
MirrorSymmetric(data) ==
    /\ verticals(data) = 2
    /\ floors(data) = 1
    /\ data.columns[0][0] = data.columns[0][1]
    /\ \A n \in DOMAIN data.loads :
          data.loads[n] = data.loads[(n \div 2) * 2 + (1 - (n % 2))]

\* C12: on a mirror-symmetric frame of one span and one storey,
\* mixed_sidesway returns the same base shear and the same yield and
\* ultimate displacements for the two push directions.
C12_MixedSideswayMirrorInvariant ==
    (mechRun.called /\ mechRun.mechanism = "mixed_sidesway"
        /\ MirrorSymmetric(mechRun.data)) =>
        LET mirrored == mixed_sidesway(mechRun.data, flip_direction(mechRun.direction))
        IN  /\ mechRun.out.raised = "no"
            /\ mirrored.raised = "no"
            /\ Eq(mechRun.out.value.base_shear, mirrored.value.base_shear)
            /\ Eq(mechRun.out.value.yielding, mirrored.value.yielding)
            /\ Eq(mechRun.out.value.ultimate, mirrored.value.ultimate)

\* The rotations mixed_sidesway collects: those of the ground columns and
\* those of the hierarchy of every upper node
MechanismNodes(data) == 0 .. verticals(data) * (floors(data) + 1) - 1
NodeRotations(data, node) == ColumnRotations

\* C23: in mixed_sidesway the yield and the ultimate displacement are the
\* effective height times the smallest yield rotation and the smallest
\* capacity rotation over all nodes of the frame; no node has a governing
\* rotation below the one used.
C23_MixedSideswayDisplacements ==
    (mechRun.called /\ mechRun.mechanism = "mixed_sidesway") =>
        /\ mechRun.out.raised = "no"
        /\ \E y \in MechanismNodes(mechRun.data), u \in MechanismNodes(mechRun.data) :
              /\ \A n \in MechanismNodes(mechRun.data) :
                    /\ Le(NodeRotations(mechRun.data, y).rot_y,
                          NodeRotations(mechRun.data, n).rot_y)
                    /\ Le(NodeRotations(mechRun.data, u).rot_c,
                          NodeRotations(mechRun.data, n).rot_c)
              /\ Eq(mechRun.out.value.yielding,
                    Mul(NodeRotations(mechRun.data, y).rot_y,
                        forces_effective_height(mechRun.data)))
              /\ Eq(mechRun.out.value.ultimate,
                    Mul(NodeRotations(mechRun.data, u).rot_c,
                        forces_effective_height(mechRun.data)))

\* C24: in column_sidesway the yield and capacity displacements are the
\* minimum yield rotation and the minimum capacity rotation over the ground
\* columns, each multiplied by the interstorey height of the ground storey.
C24_ColumnSideswayDisplacements ==
    (mechRun.called /\ mechRun.mechanism = "column_sidesway") =>
        /\ mechRun.out.raised = "no"
        /\ Eq(mechRun.out.value.disp[1],
              Mul(ColumnRotations.rot_y, Num(get_interstorey_height(mechRun.data, 0))))
        /\ Eq(mechRun.out.value.disp[2],
              Mul(ColumnRotations.rot_c, Num(get_interstorey_height(mechRun.data, 0))))

\* The 'moment' entry of sub_capacities, by node
NodeMoment(node) == Num(100 + 10 * node)

\* The delta-axial loop of mixed_sidesway and the overturning moment that
\* follows it; first is the id of the first node the loop does not skip.
overturning_moment(data, direction, first) ==
    LET V == verticals(data)
        nodes == MechanismNodes(data)
        left(n) == IF get_node_vertical(data, n) > 0
                   THEN Norm(Div(Mul(Num(direction), Add(NodeMoment(n - 1), NodeMoment(n))),
                                 Num(beam_length(1, data, get_node_floor(data, n) - 1,
                                                 get_node_vertical(data, n) - 1).length)))
                   ELSE Num(0)
        right(n) == IF get_node_vertical(data, n) < V - 1
                    THEN Norm(Div(Mul(Num(direction), Add(NodeMoment(n + 1), NodeMoment(n))),
                                  Num(beam_length(1, data, get_node_floor(data, n) - 1,
                                                  get_node_vertical(data, n)).length)))
                    ELSE Num(0)
        delta_axials == [n \in nodes |->
                            IF n < first THEN Num(0) ELSE Norm(Sub(left(n), right(n)))]
        column(i) == {n \in nodes : n % V = i}
        base_delta_axials ==
            [i \in 0 .. V - 1 |->
                FloatSum([f \in 0 .. floors(data) |-> delta_axials[i + f * V]],
                         floors(data) + 1)]
        products == [i \in 0 .. V - 1 |-> Norm(Mul(Norm(base_delta_axials[i]), Num(data.L[i])))]
    IN  Norm(Add(Mul(Num(direction), Norm(FloatSum(products, V))),
                 FloatSum([i \in 0 .. V - 1 |-> NodeMoment(i)], V)))

\* C28: the overturning moment mixed_sidesway computes, its loop skipping
\* every node id <= verticals, equals the one obtained when only the base
\* nodes (id < verticals) are skipped.
C28_SkippedNodeDoesNotCount ==
    (mechRun.called /\ mechRun.mechanism = "mixed_sidesway") =>
        /\ mechRun.out.raised = "no"
        /\ Eq(Mul(mechRun.out.value.base_shear, forces_effective_height(mechRun.data)),
              overturning_moment(mechRun.data, mechRun.direction,
                                 verticals(mechRun.data)))
        /\ Eq(overturning_moment(mechRun.data, mechRun.direction,
                                 verticals(mechRun.data) + 1),
              overturning_moment(mechRun.data, mechRun.direction,
                                 verticals(mechRun.data)))


(***************************************************************************)
(* The multi-frame main process: the main frames, then the cross frames,   *)
(* then the output record.                                                 *)
(***************************************************************************)
MaxGridFrames == 2      \* main_frames and cross_frames hold at most this many
FrameCounts == {1, 2}   \* the repetition count of a frame of the grid
Loops == <<"main", "cross">>

NoPath == <<>>          \* sub_export_path = None
OutputPath == <<"output_path">>
NoCapacity == [name |-> NoKey]

\* What mechanism(sub_factory = ..., frame = ...) does inside
\* compute_capacity_curve: mixed_sidesway as the source has it, or any
\* Callable[..., FrameCapacity] bound to that name, which returns a curve
\* of two points.
MechanismCurves ==
    {Curve("Mixed Sidesway", 3, {1, 2}, <<10, 10>>),
     Curve("Mixed Sidesway", 3, {1, 3}, <<5, 10>>)}

MechanismOutcomes ==
    {mixed_sidesway(data, 1) : data \in FrameInputs}
        \cup {Returns("Capacity",
                [name |-> "Mixed Sidesway", base_shear |-> Num(10),
                 acc_capacity |-> Num(1), yielding |-> Num(1), ultimate |-> Num(2)])}
        \cup {Returns("FrameCapacity", curve) : curve \in MechanismCurves}

\* export_subassemblies_as_csv: the file is opened after the capacities of
\* the subassemblies are collected.
export_subassemblies_as_csv(path) ==
    IF "get_node_count" \notin RegularFrameAttrs
    THEN [raised |-> "AttributeError", files |-> {}]
    ELSE [raised |-> "no", files |-> {[path |-> path, data |-> "csv"]}]

\* compute_capacity_curve, from the mechanism's outcome on
compute_capacity_curve(outcome, sub_export_path) ==
    IF outcome.raised # "no"
    THEN [raised |-> outcome.raised, files |-> {}]
    ELSE LET exported == IF sub_export_path # NoPath
                         THEN export_subassemblies_as_csv(sub_export_path)
                         ELSE [raised |-> "no", files |-> {}]
         IN  IF exported.raised # "no"
             THEN exported
             ELSE [raised |-> "no", type |-> outcome.type,
                   value |-> outcome.value, files |-> exported.files]

\* A variant of the propagation of an exception out of main that skips the
\* failed frame and goes on with the next one.
OnRaiseSkipFrame(run, error) ==
    [run EXCEPT !.i = @ + 1, !.error = error]

\* An exception raised in main is caught nowhere: the process ends.
OnRaise(run, error) ==
    [run EXCEPT !.pc = "aborted", !.error = error]

\* main_capacity = curves[0]; for curve in curves[1:]: main_capacity += curve
RECURSIVE SumCurves(_, _)
SumCurves(capacity, curves) ==
    IF curves = <<>> THEN capacity
    ELSE SumCurves(FrameCapacity_add(capacity, Head(curves)), Tail(curves))

\* One pass of the loop over main_frames or cross_frames.
LoopFrame(loop) ==
    /\ mainRun.called
    /\ mainRun.pc = loop
    /\ mainRun.i < Len(mainRun.frames[loop])
    /\ \E outcome \in MechanismOutcomes :
         LET count == mainRun.frames[loop][mainRun.i + 1]
             path == IF mainRun.export_subs_folder
                     THEN <<loop, "frame", mainRun.i>> ELSE NoPath
             curve == compute_capacity_curve(outcome, path)
             run == [mainRun EXCEPT !.files = @ \cup curve.files]
         IN  mainRun' =
               IF curve.raised # "no" THEN OnRaise(run, curve.raised)
               ELSE IF curve.type # "FrameCapacity" THEN OnRaise(run, "TypeError")
               ELSE [run EXCEPT !.i = @ + 1,
                                !.curves[loop] =
                                   Append(@, FrameCapacity_mul(curve.value, Num(count)))]
    /\ UNCHANGED <<poolVars, frameVars, hier, capSum, mechRun, unitVars>>

\* The superposition of the curves after a loop.
Combine(loop, next) ==
    /\ mainRun.called
    /\ mainRun.pc = loop
    /\ mainRun.i = Len(mainRun.frames[loop])
    /\ mainRun' =
         IF mainRun.curves[loop] = <<>> THEN OnRaise(mainRun, "IndexError")
         ELSE [mainRun EXCEPT !.pc = next, !.i = 0,
                              !.capacity[loop] =
                                 SumCurves(Head(mainRun.curves[loop]),
                                           Tail(mainRun.curves[loop]))]
    /\ UNCHANGED <<poolVars, frameVars, hier, capSum, mechRun, unitVars>>

MainFrame == LoopFrame("main")
CombineMain == Combine("main", "cross")
CrossFrame == LoopFrame("cross")
CombineCross == Combine("cross", "export")

OutputRecord(run) ==
    [tag |-> "tag", main_capacity |-> run.capacity["main"],
     cross_capacity |-> run.capacity["cross"], masses |-> <<Num(3)>>]

\* export_to_json, the last statement of main
ExportJson ==
    /\ mainRun.called
    /\ mainRun.pc = "export"
    /\ mainRun' = [mainRun EXCEPT
                     !.pc = "done",
                     !.files = @ \cup {[path |-> OutputPath,
                                        data |-> OutputRecord(mainRun)]}]
    /\ UNCHANGED <<poolVars, frameVars, hier, capSum, mechRun, unitVars>>

RECURSIVE CountSeqs(_)
CountSeqs(n) ==
    IF n = 0 THEN {<<>>}
    ELSE CountSeqs(n - 1) \cup [1 .. n -> FrameCounts]

InitMainSpec ==
    /\ InitPool /\ InitNoFrames /\ InitNoHier /\ InitNoSum /\ InitNoMech /\ InitNoUnits
    /\ \E main_frames \in CountSeqs(MaxGridFrames),
          cross_frames \in CountSeqs(MaxGridFrames),
          export_subs_folder \in BOOLEAN :
            mainRun = [called |-> TRUE, pc |-> "main", i |-> 0,
                       frames |-> [main |-> main_frames, cross |-> cross_frames],
                       export_subs_folder |-> export_subs_folder,
                       curves |-> [main |-> <<>>, cross |-> <<>>],
                       capacity |-> [main |-> NoCapacity, cross |-> NoCapacity],
                       error |-> NoKey, files |-> {}]

NextMain == MainFrame \/ CombineMain \/ CrossFrame \/ CombineCross \/ ExportJson

SpecMain == InitMainSpec /\ [][NextMain]_vars

OutputWritten == \E file \in mainRun.files : file.path = OutputPath

\* C9: the output record is written only after the curve of every main
\* frame and of every cross frame has been computed and combined, and it
\* holds the two combined curves; once a frame's computation has aborted
\* with an error, no output record and no other file has been written.
C9_OutputOnlyAfterAllFrames ==
    /\ OutputWritten =>
         /\ mainRun.pc = "done"
         /\ \A l \in DOMAIN Loops :
              /\ Len(mainRun.curves[Loops[l]]) = Len(mainRun.frames[Loops[l]])
              /\ Len(mainRun.curves[Loops[l]]) >= 1
              /\ mainRun.capacity[Loops[l]] =
                    SumCurves(Head(mainRun.curves[Loops[l]]),
                              Tail(mainRun.curves[Loops[l]]))
         /\ mainRun.files = {[path |-> OutputPath, data |-> OutputRecord(mainRun)]}
    /\ mainRun.pc = "aborted" => mainRun.files = {}
    /\ mainRun.pc \in {"main", "cross", "export"} => ~OutputWritten

\* A frame fails after the curves of the main frames were computed and
\* combined and a cross frame was computed: nothing has been written.
C9_Witness ==
    /\ mainRun.pc = "aborted"
    /\ mainRun.error \in {"AttributeError", "TypeError"}
    /\ mainRun.capacity["main"] # NoCapacity
    /\ Len(mainRun.curves["cross"]) >= 1
    /\ mainRun.files = {}

(***************************************************************************)
(* One SubassemblyFactory and the calls of its cached get_subassembly.     *)
(***************************************************************************)
MaxCalls == 2       \* calls of get_subassembly made on the factory
MaxCallNode == 4    \* the node ids asked for are 0 .. MaxCallNode

\* How the caller passes the node: get_subassembly(3) or get_subassembly(node=3)
CallStyles == {"positional", "keyword"}

\* The key functools.cache makes of a call: the positional arguments, then
\* the keyword arguments; a node passed by keyword makes another key than
\* the same node passed by position.
make_key(style, node) == [style |-> style, node |-> node]

\* A variant of the cache lookup that never finds an entry.
cache_lookup_miss(cache, key) == {}

\* The entries of the cache under a key
cache_lookup(cache, key) == {entry \in cache : entry.key = key}

NewFactory ==
    [called |-> TRUE, frame |-> 1, cache |-> {}, objects |-> <<>>,
     calls |-> {}, ncalls |-> 0]

\* A call of the cached get_subassembly: the cached object on a hit;
\* otherwise the body runs, and its result is stored unless it raised.
CallGetSubassembly(style, node) ==
    /\ factory.called
    /\ builders[factory.frame].status = "built"
    /\ factory.ncalls < MaxCalls
    /\ LET frame == builders[factory.frame]
           key == make_key(style, node)
           hits == cache_lookup(factory.cache, key)
           made == get_subassembly(heap, frame.data, frame.adj, node)
           new == Len(factory.objects) + 1
           call(obj) == [style |-> style, node |-> node, obj |-> obj]
       IN  factory' =
             IF hits # {}
             THEN [factory EXCEPT
                     !.ncalls = @ + 1,
                     !.calls = @ \cup {call((CHOOSE entry \in hits : TRUE).obj)}]
             ELSE IF node \notin DOMAIN frame.adj \/ made.raised
             THEN [factory EXCEPT !.ncalls = @ + 1, !.calls = @ \cup {call(Null)}]
             ELSE [factory EXCEPT
                     !.ncalls = @ + 1,
                     !.objects = Append(@, made.sub),
                     !.cache = @ \cup {[key |-> key, obj |-> new]},
                     !.calls = @ \cup {call(new)}]
    /\ UNCHANGED <<poolVars, frameVars, hier, capSum, mainRun, mechRun,
                   elemRun, sectRun, jointRun>>

InitFactorySpec ==
    /\ InitPool /\ InitNoFrames /\ InitNoHier /\ InitNoSum /\ InitNoMain /\ InitNoMech
    /\ InitNoElem /\ InitNoSect /\ InitNoJoint
    /\ factory = NewFactory

NextFactory ==
    \/ \E data \in FrameInputs : NewBuilder(1, data)
    \/ BuildFrame(1)
    \/ \E style \in CallStyles, node \in 0 .. MaxCallNode :
            CallGetSubassembly(style, node)

SpecFactory == InitFactorySpec /\ [][NextFactory]_vars

ReturnedCalls == {c \in factory.calls : c.obj # Null}

CurveMasses == {3, 4}

\* A curve with its last breakpoint repeated: not strictly increasing.
RepeatLast(curve) ==
    [curve EXCEPT !.disp = Append(@, curve.disp[Len(curve.disp)]),
                  !.base_shear = Append(@, Num(5))]

InitSelfSumSpec ==
    /\ InitPool /\ InitNoFrames /\ InitNoHier /\ InitNoMain /\ InitNoMech /\ InitNoUnits
    /\ \E points \in (SUBSET (0 .. MaxDisp)) \ {{}}, mass \in CurveMasses,
          repeat \in BOOLEAN :
          \E shears \in [1 .. Cardinality(points) -> ShearValues] :
             LET curve == Curve(CurveNames[1], mass, points, shears)
                 c == IF repeat THEN RepeatLast(curve) ELSE curve
             IN  capSum = [called |-> FALSE, a |-> c, b |-> c]

SpecSelfSum == InitSelfSumSpec /\ [][NextSum]_vars

StrictlyIncreasing(disp) ==
    \A i \in 1 .. Len(disp) - 1 : Lt(disp[i], disp[i + 1])

\* C14: for a curve c with strictly increasing breakpoints, c + c has the
\* breakpoints of c, twice the base shear of c at every breakpoint and
\* twice the mass of c, and c is what it was.
C14_SelfSumDoubles ==
    (capSum.called /\ capSum.a = capSum.b /\ StrictlyIncreasing(capSum.a.disp)) =>
        /\ capSum.out.disp = capSum.a.disp
        /\ DOMAIN capSum.out.base_shear = DOMAIN capSum.a.base_shear
        /\ \A i \in DOMAIN capSum.a.base_shear :
              Eq(capSum.out.base_shear[i], Mul(Num(2), capSum.a.base_shear[i]))
        /\ Eq(capSum.out.mass, Mul(Num(2), capSum.a.mass))
        /\ StrictlyIncreasing(capSum.a.disp)
        /\ Len(capSum.a.base_shear) = Len(capSum.a.disp)

\* A curve of three breakpoints with a last shear that is not zero was
\* added to itself.
C14_Witness ==
    /\ capSum.called
    /\ capSum.a = capSum.b
    /\ StrictlyIncreasing(capSum.a.disp)
    /\ Len(capSum.a.disp) = 3
    /\ ~Eq(capSum.a.base_shear[3], Num(0))
    /\ Eq(capSum.out.base_shear[3], Mul(Num(2), capSum.a.base_shear[3]))

(***************************************************************************)
(* BasicElement.moment_rotation.  The section's answers (moment-curvature, *)
(* plastic hinge length, shear envelope) are the inputs of the element.    *)
(***************************************************************************)
\* a / b on numpy floats: no exception on a zero divisor; 0 / 0 is nan and
\* x / 0 an infinity, kept as the fraction x / 0.
DivNp(a, b) ==
    IF a.nan \/ b.nan THEN NaN
    ELSE IF b.n = 0 /\ a.n = 0 THEN NaN
    ELSE IF b.n = 0 THEN [nan |-> FALSE, n |-> IF a.n > 0 THEN 1 ELSE -1, d |-> 0]
    ELSE Div(a, b)

Ge(a, b) == Le(b, a)

\* Arithmetic of numpy floats that may be infinite (d = 0): inf - inf and
\* 0 * inf are nan.
AddNp(a, b) ==
    IF a.nan \/ b.nan THEN NaN
    ELSE IF a.d = 0 /\ b.d = 0 THEN (IF a.n = b.n THEN a ELSE NaN)
    ELSE IF a.d = 0 THEN a
    ELSE IF b.d = 0 THEN b
    ELSE Norm(Add(a, b))
SubNp(a, b) == AddNp(a, IF b.nan THEN NaN ELSE [nan |-> FALSE, n |-> -b.n, d |-> b.d])
MulNp(a, b) ==
    IF a.nan \/ b.nan THEN NaN
    ELSE IF (a.d = 0 \/ b.d = 0) /\ (a.n = 0 \/ b.n = 0) THEN NaN
    ELSE IF a.d = 0 \/ b.d = 0
    THEN [nan |-> FALSE, n |-> IF (a.n > 0) = (b.n > 0) THEN 1 ELSE -1, d |-> 0]
    ELSE Norm(Mul(a, b))
QuotNp(a, b) ==
    IF a.nan \/ b.nan THEN NaN
    ELSE IF a.d = 0 /\ b.d = 0 THEN NaN
    ELSE IF a.d = 0
    THEN [nan |-> FALSE, n |-> IF (a.n > 0) = (b.n >= 0) THEN 1 ELSE -1, d |-> 0]
    ELSE IF b.d = 0 THEN Num(0)
    ELSE LET q == DivNp(a, b) IN IF q.nan \/ q.d = 0 THEN q ELSE Norm(q)

\* min(a, b) of Python: b when b < a, else a
py_min(a, b) == IF Lt(b, a) THEN b ELSE a
py_max(a, b) == IF Gt(b, a) THEN b ELSE a

NoPoint == [found |-> FALSE]

\* np.linspace(start, stop): Samples evenly spaced points, ends included
Samples == 50
linspace(start, stop) ==
    [k \in 1 .. Samples |->
        AddNp(start, QuotNp(MulNp(Num(k - 1), SubNp(stop, start)), Num(Samples - 1)))]

\* interp1d(xs, ys, kind='linear')(x) for x within the range of xs: the
\* segment that ends at the first breakpoint not below x
interp1d(xs, ys, x) ==
    LET hi == IF \E i \in 2 .. Len(xs) : Le(x, xs[i])
              THEN CHOOSE i \in 2 .. Len(xs) :
                      Le(x, xs[i]) /\ \A j \in 2 .. i - 1 : ~Le(x, xs[j])
              ELSE Len(xs)
        lo == hi - 1
        slope == QuotNp(SubNp(ys[hi], ys[lo]), SubNp(xs[hi], xs[lo]))
    IN  AddNp(MulNp(slope, SubNp(x, xs[lo])), ys[lo])

\* np.sign; nan for nan
sign(a) == IF a.nan THEN 2 ELSE IF a.n > 0 THEN 1 ELSE IF a.n < 0 THEN -1 ELSE 0

\* The first intersection of the two lines through the samples index and
\* index + 1 of the two curves: np.linalg.inv raises LinAlgError on a
\* singular matrix.
segment_intersection(x_domain, y1, y2, index) ==
    LET x_a == x_domain[index]
        x_b == x_domain[index + 1]
        slope_1 == QuotNp(SubNp(y1[index + 1], y1[index]), SubNp(x_b, x_a))
        slope_2 == QuotNp(SubNp(y2[index + 1], y2[index]), SubNp(x_b, x_a))
        const_1 == SubNp(y1[index], MulNp(slope_1, x_a))
        const_2 == SubNp(y2[index], MulNp(slope_2, x_a))
        x == QuotNp(SubNp(const_2, const_1), SubNp(slope_1, slope_2))
    IN  IF Eq(x_a, x_b) THEN [raised |-> "LinAlgError"]
        ELSE IF Eq(slope_1, slope_2) THEN [raised |-> "LinAlgError"]
        ELSE [found |-> TRUE, rot |-> x, mom |-> AddNp(MulNp(slope_1, x), const_1)]

\* utils.intersection(x1, y1, x2, y2): None, or the point where the two
\* sampled curves first cross
intersection(x1, y1, x2, y2) ==
    LET x_domain == linspace(py_max(x1[1], x2[1]), py_min(x1[Len(x1)], x2[Len(x2)]))
        y1_interpolation == [k \in 1 .. Samples |-> interp1d(x1, y1, x_domain[k])]
        y2_interpolation == [k \in 1 .. Samples |-> interp1d(x2, y2, x_domain[k])]
        difference == [k \in 1 .. Samples |->
                          sign(SubNp(y1_interpolation[k], y2_interpolation[k]))]
        indexes == {k \in 1 .. Samples - 1 :
                        difference[k] = 2 \/ difference[k + 1] = 2
                            \/ difference[k] # difference[k + 1]}
    IN  IF indexes = {} THEN NoPoint
        ELSE segment_intersection(x_domain, y1_interpolation, y2_interpolation,
                                  CHOOSE k \in indexes : \A j \in indexes : k <= j)

MomentRotation(mom_y, mom_c, rot_y, rot_c, failure) ==
    [mom_y |-> mom_y, mom_c |-> mom_c, rot_y |-> rot_y, rot_c |-> rot_c,
     failure |-> failure]

\* A variant of moment_rotation's first test that looks at the shear
\* envelope whatever the flag says.
ignore_shear_never(consider_shear_iteraction) == FALSE

\* "if not consider_shear_iteraction"
ignore_shear(consider_shear_iteraction) == ~consider_shear_iteraction

\* A variant of the case analysis that looks at the brittle case first.
shear_case_brittle_first(residual_reaches_capacity, undamaged_below_yield) ==
    IF undamaged_below_yield THEN "ShearFragile"
    ELSE IF residual_reaches_capacity THEN "Moment"
    ELSE "interaction"

\* The first two tests of the shear interaction, in the order of the code:
\* "if shear_moment_cap_residual >= moment_curvature.mom_c", then
\* "if shear_moment_cap_undamaged <= moment_curvature.mom_y".
shear_case(residual_reaches_capacity, undamaged_below_yield) ==
    IF residual_reaches_capacity THEN "Moment"
    ELSE IF undamaged_below_yield THEN "ShearFragile"
    ELSE "interaction"

\* A variant of the end of moment_rotation that reports the intersection
\* point as yield point too, as the brittle case does.
interaction_result_single_point(flexural, shear_interaction) ==
    IF "raised" \in DOMAIN shear_interaction THEN shear_interaction
    ELSE IF ~shear_interaction.found THEN flexural
    ELSE MomentRotation(shear_interaction.mom, shear_interaction.mom,
                        shear_interaction.rot, shear_interaction.rot, "ShearDuctile")

\* The end of moment_rotation: "if shear_interaction is None" the flexural
\* backbone, else the backbone capped at the intersection point; an
\* exception of utils.intersection propagates.
interaction_result(flexural, shear_interaction) ==
    IF "raised" \in DOMAIN shear_interaction THEN shear_interaction
    ELSE IF ~shear_interaction.found THEN flexural
    ELSE MomentRotation(flexural.mom_y, shear_interaction.mom,
                        flexural.rot_y, shear_interaction.rot, "ShearDuctile")

\* The two curves moment_rotation hands to utils.intersection
shear_envelope(shear_moment_cap_undamaged, shear_moment_cap_residual, shear_rotation_undamaged, shear_rotation_residual, capping_rotation) ==
    LET extended == Le(shear_rotation_residual, capping_rotation)
    IN  [rotation |-> <<Num(0), shear_rotation_undamaged, shear_rotation_residual>>
                        \o (IF extended THEN <<capping_rotation>> ELSE <<>>),
         moment |-> <<shear_moment_cap_undamaged, shear_moment_cap_undamaged,
                      shear_moment_cap_residual>>
                        \o (IF extended THEN <<shear_moment_cap_residual>> ELSE <<>>)]

\* BasicElement.moment_rotation
moment_rotation(moment_curvature, L, plastic_hinge, shear_capacity, consider_shear_iteraction) ==
    LET yielding_rotation == DivNp(Mul(moment_curvature.phi_y, L), Num(6))
        plastic_rotation ==
            Mul(plastic_hinge, Sub(moment_curvature.phi_c, moment_curvature.phi_y))
        capping_rotation == Add(yielding_rotation, plastic_rotation)
        flexural == MomentRotation(moment_curvature.mom_y, moment_curvature.mom_c,
                                   yielding_rotation, capping_rotation, "Moment")
        shear_moment_cap_undamaged ==
            DivNp(Mul(shear_capacity.cap_undamaged, L), Num(2))
        shear_moment_cap_residual ==
            DivNp(Mul(shear_capacity.cap_residual, L), Num(2))
        shear_rotation_undamaged ==
            Add(yielding_rotation,
                Mul(Mul(Sub(shear_capacity.duc_undamaged, Num(1)), plastic_hinge),
                    moment_curvature.phi_y))
        shear_rotation_residual ==
            Add(yielding_rotation,
                Mul(Mul(Sub(shear_capacity.duc_residual, Num(1)), plastic_hinge),
                    moment_curvature.phi_y))
        failure_rotation ==
            DivNp(Mul(shear_moment_cap_undamaged, yielding_rotation),
                  moment_curvature.mom_y)
        shear_interaction_slope ==
            DivNp(Sub(shear_moment_cap_residual, shear_moment_cap_undamaged),
                  Sub(shear_rotation_residual, shear_rotation_undamaged))
        moment_interaction_slope ==
            DivNp(Sub(moment_curvature.mom_c, shear_moment_cap_undamaged),
                  Sub(capping_rotation, shear_rotation_undamaged))
        case == shear_case(Ge(shear_moment_cap_residual, moment_curvature.mom_c),
                           Le(shear_moment_cap_undamaged, moment_curvature.mom_y))
        envelope == shear_envelope(shear_moment_cap_undamaged, shear_moment_cap_residual,
                                   shear_rotation_undamaged, shear_rotation_residual,
                                   capping_rotation)
    IN  IF ignore_shear(consider_shear_iteraction) THEN flexural
        ELSE IF case = "Moment" THEN flexural
        ELSE IF case = "ShearFragile"
        THEN MomentRotation(shear_moment_cap_undamaged, shear_moment_cap_undamaged,
                            failure_rotation, failure_rotation, "ShearFragile")
        ELSE IF Ge(shear_rotation_undamaged, capping_rotation)
                /\ Ge(shear_moment_cap_undamaged, moment_curvature.mom_c)
        THEN flexural
        ELSE IF Ge(shear_interaction_slope, moment_interaction_slope) THEN flexural
        ELSE interaction_result(flexural,
                intersection(<<Num(0), yielding_rotation, capping_rotation>>,
                             <<Num(0), moment_curvature.mom_y, moment_curvature.mom_c>>,
                             envelope.rotation, envelope.moment))

\* What the section answers: moment-curvature points, plastic hinge
\* lengths and shear capacities (undamaged, residual; ductilities 3 and 15).
MaxShear == 5       \* shear capacities are among 0 .. MaxShear, or nan
ElementLengths == {Num(6)}
PlasticHinges == {Num(1)}
MomentCurvatures ==
    {[mom_y |-> Num(mom_y), mom_c |-> Num(mom_c), phi_y |-> Num(phi_y),
      phi_c |-> Num(phi_c)] :
        mom_y \in {10}, mom_c \in {8, 12, 14}, phi_y \in {1, 2}, phi_c \in {3, 5, 15, 40}}
ShearCapacities == {Num(v) : v \in 0 .. MaxShear} \cup {NaN}
ShearEnvelope(cap_undamaged, cap_residual) ==
    [cap_undamaged |-> cap_undamaged, cap_residual |-> cap_residual,
     duc_undamaged |-> Num(3), duc_residual |-> Num(15)]

\* The flexural backbone of the call, as the section's answers give it.
FlexuralBackbone(call) ==
    LET rot_y == DivNp(Mul(call.moment_curvature.phi_y, call.L), Num(6))
    IN  MomentRotation(call.moment_curvature.mom_y, call.moment_curvature.mom_c,
                       rot_y,
                       Add(rot_y, Mul(call.plastic_hinge,
                                      Sub(call.moment_curvature.phi_c,
                                          call.moment_curvature.phi_y))),
                       "Moment")

CallMomentRotation ==
    /\ ~elemRun.called
    /\ elemRun' = [elemRun EXCEPT
                     !.called = TRUE,
                     !.out = moment_rotation(elemRun.moment_curvature, elemRun.L,
                                             elemRun.plastic_hinge,
                                             elemRun.shear_capacity,
                                             elemRun.consider_shear_iteraction)]
    /\ UNCHANGED <<poolVars, frameVars, hier, capSum, mainRun, mechRun,
                   factory, sectRun, jointRun>>

InitElemSpec ==
    /\ InitPool /\ InitNoFrames /\ InitNoHier /\ InitNoSum /\ InitNoMain /\ InitNoMech
    /\ InitNoFactory /\ InitNoSect /\ InitNoJoint
    /\ \E moment_curvature \in MomentCurvatures, L \in ElementLengths,
          plastic_hinge \in PlasticHinges,
          cap_undamaged \in ShearCapacities, cap_residual \in ShearCapacities,
          consider_shear_iteraction \in BOOLEAN :
            elemRun = [called |-> FALSE, moment_curvature |-> moment_curvature,
                       L |-> L, plastic_hinge |-> plastic_hinge,
                       shear_capacity |-> ShearEnvelope(cap_undamaged, cap_residual),
                       consider_shear_iteraction |-> consider_shear_iteraction,
                       out |-> NoPoint]

NextElem == CallMomentRotation

SpecElem == InitElemSpec /\ [][NextElem]_vars

\* C15: with consider_shear_iteraction = False, moment_rotation returns the
\* flexural backbone (mom_y and mom_c of the moment-curvature, rot_y =
\* phi_y * L / 6, rot_c = rot_y + plastic hinge * (phi_c - phi_y)) tagged
\* Moment, whatever the shear envelope is.
C15_NoShearIsFlexuralBackbone ==
    (elemRun.called /\ ~elemRun.consider_shear_iteraction) =>
        elemRun.out = FlexuralBackbone(elemRun)

\* The flag is off and the shear envelope would have made the element
\* fail in brittle shear.
C15_Witness ==
    /\ elemRun.called
    /\ ~elemRun.consider_shear_iteraction
    /\ Lt(Mul(elemRun.shear_capacity.cap_residual, Num(3)), elemRun.moment_curvature.mom_c)
    /\ Lt(Mul(elemRun.shear_capacity.cap_undamaged, Num(3)), elemRun.moment_curvature.mom_y)
    /\ elemRun.out.failure = "Moment"

ShearMoment(call, cap) == DivNp(Mul(cap, call.L), Num(2))

\* C20: with shear interaction, a residual shear-moment >= the capacity
\* moment gives the flexural backbone tagged Moment, also when the
\* undamaged shear-moment is <= the yield moment; otherwise an undamaged
\* shear-moment <= the yield moment gives a single point tagged
\* ShearFragile: mom_y = mom_c = undamaged shear-moment, rot_y = rot_c =
\* yield rotation * (undamaged shear-moment / yield moment).
C20_FailureModeInStrictOrder ==
    (elemRun.called /\ elemRun.consider_shear_iteraction) =>
        LET residual == ShearMoment(elemRun, elemRun.shear_capacity.cap_residual)
            undamaged == ShearMoment(elemRun, elemRun.shear_capacity.cap_undamaged)
            mc == elemRun.moment_curvature
            out == elemRun.out
        IN  /\ Ge(residual, mc.mom_c) => out = FlexuralBackbone(elemRun)
            /\ (~Ge(residual, mc.mom_c) /\ Le(undamaged, mc.mom_y)) =>
                  /\ out.failure = "ShearFragile"
                  /\ out.mom_y = undamaged
                  /\ out.mom_c = undamaged
                  /\ out.rot_y = out.rot_c
                  /\ Eq(out.rot_y, Mul(FlexuralBackbone(elemRun).rot_y,
                                       DivNp(undamaged, mc.mom_y)))

\* Both tests are true at once and the result is the flexural backbone.
C20_Witness ==
    /\ elemRun.called
    /\ elemRun.consider_shear_iteraction
    /\ Ge(ShearMoment(elemRun, elemRun.shear_capacity.cap_residual),
          elemRun.moment_curvature.mom_c)
    /\ Le(ShearMoment(elemRun, elemRun.shear_capacity.cap_undamaged),
          elemRun.moment_curvature.mom_y)
    /\ elemRun.out.failure = "Moment"

\* The call reached the shear interaction proper: neither the pure-flexure
\* test (residual shear-moment >= mom_c) nor the brittle test (undamaged
\* shear-moment <= mom_y) applies.
InteractionCase ==
    /\ elemRun.called
    /\ elemRun.consider_shear_iteraction
    /\ ~Ge(ShearMoment(elemRun, elemRun.shear_capacity.cap_residual),
           elemRun.moment_curvature.mom_c)
    /\ ~Le(ShearMoment(elemRun, elemRun.shear_capacity.cap_undamaged),
           elemRun.moment_curvature.mom_y)

\* The shear rotations of the call: yielding rotation + (ductility - 1) *
\* plastic hinge * phi_y
ShearRotation(call, ductility) ==
    Add(FlexuralBackbone(call).rot_y,
        Mul(Mul(Sub(ductility, Num(1)), call.plastic_hinge), call.moment_curvature.phi_y))

\* The shear envelope of the call, in moment-rotation terms
CallEnvelope(call) ==
    shear_envelope(ShearMoment(call, call.shear_capacity.cap_undamaged),
                   ShearMoment(call, call.shear_capacity.cap_residual),
                   ShearRotation(call, call.shear_capacity.duc_undamaged),
                   ShearRotation(call, call.shear_capacity.duc_residual),
                   FlexuralBackbone(call).rot_c)

\* The end of the rotations the backbone and the envelope have in common
CommonEnd(call) ==
    LET rotation == CallEnvelope(call).rotation
    IN  py_min(FlexuralBackbone(call).rot_c, rotation[Len(rotation)])

\* The backbone and the envelope of the call have no point in common: at
\* every breakpoint of either curve, up to the end of the rotations they
\* share, the backbone lies strictly on the same side of the envelope.
NoCrossing(call) ==
    LET fb == FlexuralBackbone(call)
        envelope == CallEnvelope(call)
        x1 == <<Num(0), fb.rot_y, fb.rot_c>>
        y1 == <<Num(0), fb.mom_y, fb.mom_c>>
        end == CommonEnd(call)
        points == {x \in SeqRange(x1) \cup SeqRange(envelope.rotation) : Le(x, end)}
        side(x) == sign(SubNp(interp1d(x1, y1, x),
                              interp1d(envelope.rotation, envelope.moment, x)))
    IN  \/ \A x \in points : side(x) = -1
        \/ \A x \in points : side(x) = 1

\* C21: where neither the pure-flexure nor the brittle-shear case applies,
\* moment_rotation with shear interaction returns without raising, also
\* when the undamaged shear rotation equals the capping rotation; when the
\* shear envelope and the flexural backbone have no point in common the
\* result is the flexural backbone tagged Moment; and a result tagged
\* ShearDuctile keeps the flexural mom_y and rot_y and has (rot_c, mom_c) at
\* a crossing of the two curves, within the rotations they share.
C21_ShearInteractionCompletes ==
    InteractionCase =>
        LET out == elemRun.out
            fb == FlexuralBackbone(elemRun)
        IN  /\ "raised" \notin DOMAIN out
            /\ out.failure \in {"Moment", "ShearDuctile"}
            /\ NoCrossing(elemRun) => out = fb
            /\ out.failure = "Moment" => out = fb
            /\ out.failure = "ShearDuctile" =>
                    /\ out.mom_y = fb.mom_y
                    /\ out.rot_y = fb.rot_y
                    /\ ~NoCrossing(elemRun)
                    /\ (~out.rot_c.nan /\ ~out.mom_c.nan) =>
                            /\ Le(Num(0), out.rot_c)
                            /\ Le(out.rot_c, CommonEnd(elemRun))
                            /\ Le(out.mom_c,
                                  ShearMoment(elemRun, elemRun.shear_capacity.cap_undamaged))

\* The undamaged shear rotation equals the capping rotation, the undamaged
\* shear-moment lies between mom_y and mom_c, and the call returned a
\* ShearDuctile result with a finite intersection point.
C21_Witness ==
    /\ InteractionCase
    /\ Eq(ShearRotation(elemRun, elemRun.shear_capacity.duc_undamaged),
          FlexuralBackbone(elemRun).rot_c)
    /\ "raised" \notin DOMAIN elemRun.out
    /\ elemRun.out.failure = "ShearDuctile"
    /\ ~elemRun.out.rot_c.nan
    /\ Lt(elemRun.out.rot_y, elemRun.out.rot_c)
    /\ Lt(elemRun.out.mom_c, elemRun.moment_curvature.mom_c)

(***************************************************************************)
(* analytic_moment_curvature.  The coefficients of the two equilibrium     *)
(* polynomials are computed; the root np.roots picks and the moments and   *)
(* curvatures that follow from it are kept as the expression they are: a   *)
(* function of the polynomial, the two reinforcement areas once swapped,   *)
(* the geometry, the materials and the axial load.                         *)
(***************************************************************************)
SectionSteel == [fy |-> Num(2), E |-> Num(1000)]
SectionConcrete == [fc |-> Num(5), E |-> Num(30), epsilon_u |-> Frac(1, 250)]
epsilon_y(steel) == Norm(Div(steel.fy, steel.E))

SteelAreas == {2, 3, 4}
SectionAxials == {0, 5, 10}
SectionHeights == {5, 6}
SectionCovers == {1, 2}

\* BasicSectionInput: As is the bottom reinforcement, As1 the top one
SectionData(h, cover, As_top, As_bot) ==
    [h |-> Num(h), b |-> Num(3), cover |-> Num(cover),
     As |-> Num(As_bot), As1 |-> Num(As_top)]

\* A variant that leaves the reinforcement where it is in both directions.
effective_reinforcement_no_swap(direction, As_top, As_bot) ==
    [As_top |-> As_top, As_bot |-> As_bot]

\* "if direction is Direction.Negative: As_top, As_bot = As_bot, As_top"
effective_reinforcement(direction, As_top, As_bot) ==
    IF direction = -1 THEN [As_top |-> As_bot, As_bot |-> As_top]
    ELSE [As_top |-> As_top, As_bot |-> As_bot]

\* analytic_moment_curvature
analytic_moment_curvature(section_data, concrete, steel, direction, axial) ==
    LET E_c == concrete.E
        ec_u == concrete.epsilon_u
        fc == concrete.fc
        b == section_data.b
        h == section_data.h
        cop == section_data.cover
        d_top == cop
        d_bot == Sub(h, cop)
        E_s == steel.E
        ey_s == epsilon_y(steel)
        fy_s == steel.fy
        As == effective_reinforcement(direction, section_data.As1, section_data.As)
        As_top == As.As_top
        As_bot == As.As_bot
        top_ratio == Norm(Div(d_top, d_bot))
        yield_polynomial ==
            << Norm(Add(Mul(Mul(Mul(Frac(1, 2), E_c), b), d_bot),
                        Mul(Mul(E_s, As_top), Sub(Num(1), top_ratio)))),
               Norm(Sub(Sub(Neg(Mul(Mul(Mul(ey_s, E_s), As_top),
                                    Sub(Mul(Num(2), top_ratio), Num(1)))),
                            Mul(As_bot, fy_s)),
                        axial)),
               Norm(Neg(Mul(ey_s,
                            Add(Add(axial, Mul(As_bot, fy_s)),
                                Mul(Mul(Mul(E_s, As_top), ey_s),
                                    Norm(Div(d_top, d_top))))))) >>
        capacity_polynomial ==
            << Norm(Neg(Mul(Mul(E_s, As_top), top_ratio))),
               Norm(Add(Add(axial, Mul(fy_s, As_bot)),
                        Mul(Norm(Mul(Mul(E_s, As_top), ec_u)),
                            Sub(Mul(Num(2), top_ratio), Num(1))))),
               Norm(Mul(Sub(Sub(Add(Norm(Mul(Mul(Mul(Frac(4, 5), fc), b), d_bot)),
                                    Mul(Norm(Mul(Mul(E_s, As_top), ec_u)),
                                        Sub(Num(1), top_ratio))),
                                Mul(fy_s, As_bot)),
                            axial),
                        ec_u)) >>
        stress_block ==
            [ec_top |-> [roots |-> yield_polynomial, pick |-> "max"],
             es_bot |-> [roots |-> capacity_polynomial, pick |-> "min"],
             As_top |-> As_top, As_bot |-> As_bot, axial |-> axial,
             h |-> h, b |-> b, cover |-> cop,
             concrete |-> concrete, steel |-> steel]
    IN  [mom_y |-> [value |-> "moment_yielding", of |-> stress_block],
         mom_c |-> [value |-> "moment_capacity", of |-> stress_block],
         phi_y |-> [value |-> "curvature_yielding", of |-> stress_block],
         phi_c |-> [value |-> "curvature_capacity", of |-> stress_block]]

\* moment_curvature in the Positive direction of the section with top
\* reinforcement a and bottom b, and in the Negative direction of the
\* section with top b and bottom a.
CallMomentCurvatures ==
    /\ ~sectRun.called
    /\ sectRun' =
         [sectRun EXCEPT
            !.called = TRUE,
            !.positive =
               analytic_moment_curvature(
                  SectionData(sectRun.h, sectRun.cover, sectRun.a, sectRun.b),
                  SectionConcrete, SectionSteel, 1, Num(sectRun.axial)),
            !.negative =
               analytic_moment_curvature(
                  SectionData(sectRun.h, sectRun.cover, sectRun.b, sectRun.a),
                  SectionConcrete, SectionSteel, -1, Num(sectRun.axial)),
            !.same_section_negative =
               analytic_moment_curvature(
                  SectionData(sectRun.h, sectRun.cover, sectRun.a, sectRun.b),
                  SectionConcrete, SectionSteel, -1, Num(sectRun.axial))]
    /\ UNCHANGED <<poolVars, frameVars, hier, capSum, mainRun, mechRun,
                   factory, elemRun, jointRun>>

InitSectSpec ==
    /\ InitPool /\ InitNoFrames /\ InitNoHier /\ InitNoSum /\ InitNoMain /\ InitNoMech
    /\ InitNoFactory /\ InitNoElem /\ InitNoJoint
    /\ \E a \in SteelAreas, b \in SteelAreas, axial \in SectionAxials,
          h \in SectionHeights, cover \in SectionCovers :
            sectRun = [called |-> FALSE, a |-> a, b |-> b, axial |-> axial,
                       h |-> h, cover |-> cover, positive |-> NoPoint,
                       negative |-> NoPoint, same_section_negative |-> NoPoint]

NextSect == CallMomentCurvatures

SpecSect == InitSectSpec /\ [][NextSect]_vars

\* C16: moment_curvature in the Positive direction of a section with top
\* reinforcement a and bottom reinforcement b has the four outputs of
\* moment_curvature in the Negative direction of the section with top b
\* and bottom a.
C16_MirroredSectionSameCurvature ==
    sectRun.called =>
        /\ sectRun.positive.mom_y = sectRun.negative.mom_y
        /\ sectRun.positive.mom_c = sectRun.negative.mom_c
        /\ sectRun.positive.phi_y = sectRun.negative.phi_y
        /\ sectRun.positive.phi_c = sectRun.negative.phi_c

\* The two reinforcements differ, so that the direction matters for the
\* section itself, and the mirrored section has the same outputs.
C16_Witness ==
    /\ sectRun.called
    /\ sectRun.a # sectRun.b
    /\ sectRun.positive # sectRun.same_section_negative
    /\ sectRun.positive = sectRun.negative

(***************************************************************************)
(* The root finder behind the hierarchy.  fsolve ends with a solution x    *)
(* and a status ier: 1 when it converged, 2..5 when it stopped without a   *)
(* root (x is then its last iterate).                                      *)
(***************************************************************************)
SolverStatus == {1, 5}

\* analytical_intersection: fsolve(difference_function, initial_guess)[0]
analytical_intersection(solution) == solution.x

SolverResults == [x : {Num(247), Num(253)}, ier : SolverStatus]

InitSolveSpec ==
    /\ InitPool /\ InitNoFrames /\ InitNoSum /\ InitNoMain /\ InitNoMech /\ InitNoUnits
    /\ \E variant \in {"tot", "low"}, left \in BOOLEAN, right \in BOOLEAN,
          above \in BOOLEAN, direction \in Directions :
            LET sub == HierSub(left, right, above, TRUE, Num(250), Frac(2, 3))
                keys == SeqRange(CandidateKeys(variant, sub))
            IN  \E solutions \in [keys -> SolverResults] :
                    hier = [called |-> FALSE, variant |-> variant, sub |-> sub,
                            direction |-> direction,
                            rotations |-> MemberRotationTables[1],
                            solutions |-> solutions,
                            roots |-> [k \in keys |->
                                          analytical_intersection(solutions[k])]]

SpecSolve == InitSolveSpec /\ [][NextHier]_vars

\* C17: when the root finder did not converge for a candidate, the hierarchy
\* engine does not return a hierarchy built on the solver's last value for
\* that candidate without a diagnostic that names the candidate.
C17_NonConvergenceSurfaced ==
    hier.called =>
        \A k \in DOMAIN hier.solutions :
            hier.solutions[k].ier # 1 =>
                \/ hier.out.raised # "no"
                \/ k \in hier.diagnostics

(***************************************************************************)
(* Subassembly.domain_MN: the moment capacity of the joint at an axial     *)
(* load.                                                                   *)
(***************************************************************************)
\* The largest r with r * r <= m
ISqrt(m) == CHOOSE r \in 0 .. 3000 : r * r <= m /\ m < (r + 1) * (r + 1)

\* A variant of math.sqrt that answers nan to a negative argument, as
\* numpy.sqrt does.
math_sqrt_nan(x) ==
    IF x.nan \/ Lt(x, Num(0)) THEN [raised |-> "no", value |-> NaN]
    ELSE LET q == Norm(x)
         IN  [raised |-> "no",
              value |-> Norm(Frac(ISqrt(q.n * q.d * 10000), q.d * 100))]

\* math.sqrt: ValueError on a negative argument, nan for nan, and the root
\* rounded to the precision of the floats of this model (1/100) otherwise.
math_sqrt(x) ==
    IF x.nan THEN [raised |-> "no", value |-> NaN]
    ELSE IF Lt(x, Num(0)) THEN [raised |-> "ValueError", value |-> NaN]
    ELSE LET q == Norm(x)
         IN  [raised |-> "no",
              value |-> Norm(Frac(ISqrt(q.n * q.d * 10000), q.d * 100))]

\* cfg.nodes.tension_kj_values and cfg.nodes.compression_kj_value
tension_kj_values(node_type) ==
    IF node_type \in INTERNAL_NODES THEN Num(1) ELSE Frac(1, 2)
compression_kj_value == Frac(1, 2)

\* The sections of the members of the subassembly under test
JointConcreteFc == Num(4000)
JointBeamHeight == Frac(1, 2)
JointBeamDepth == Frac(2, 5)
JointColumnHeight == Frac(1, 2)
JointColumnWidth == Num(2)
JointColumnLength == Num(3)
JointBeamLengths == {Num(4), Num(5)}
JointAxials ==
    {NaN} \cup {Num(1000 * k) : k \in {-3, -2, -1, 0, 1, 2, 3, 8}}

\* Subassembly._shear_moment_conversion_factor
shear_moment_conversion_factor(sub) ==
    LET beam_height == py_max(IF sub.right_beam # Null THEN JointBeamHeight ELSE Num(0),
                              IF sub.left_beam # Null THEN JointBeamHeight ELSE Num(0))
        beam_depth == py_min(IF sub.right_beam # Null THEN JointBeamDepth ELSE Num(1000),
                             IF sub.left_beam # Null THEN JointBeamDepth ELSE Num(1000))
        beam_factor == IF sub.node_type \in INTERNAL_NODES
                       THEN Sub(sub.beam_length, JointColumnHeight)
                       ELSE Sub(sub.beam_length, MulN(Frac(1, 2), JointColumnHeight))
        column_factor == IF sub.node_type \in TOP_NODES
                         THEN Sub(sub.column_length, MulN(Frac(1, 2), beam_height))
                         ELSE MulN(Frac(1, 2), Sub(sub.column_length, beam_height))
        numerator == MulN(MulN(MulN(Frac(9, 10), column_factor), sub.beam_length),
                          beam_depth)
        denominator == Norm(Sub(MulN(sub.column_length, beam_factor),
                                MulN(MulN(Frac(9, 10), sub.beam_length), beam_depth)))
    IN  IF Eq(denominator, Num(0))
        THEN [raised |-> "ZeroDivisionError", value |-> NaN]
        ELSE [raised |-> "no", value |-> Norm(Div(numerator, denominator))]

\* The quantity under the square root of the tension capacity
tension_radicand(sub, axial) ==
    LET node_area == MulN(JointColumnWidth, JointColumnHeight)
        tensile_strength_MPa ==
            MulN(sub.kj, math_sqrt(MulN(JointConcreteFc, Frac(1, 1000))).value)
    IN  Norm(Add(Num(1), Norm(Div(MulN(axial, Frac(1, 1000)),
                                  MulN(node_area, tensile_strength_MPa)))))

\* The quantity under the square root of the compression capacity
compression_radicand(sub, axial) ==
    LET node_area == MulN(JointColumnWidth, JointColumnHeight)
        compression_strength_MPa ==
            MulN(MulN(compression_kj_value, JointConcreteFc), Frac(1, 1000))
    IN  Norm(Sub(Num(1), Norm(Div(MulN(axial, Frac(1, 1000)),
                                  MulN(node_area, compression_strength_MPa)))))

\* 0.85 * node_area * strength * 10**3 * math.sqrt(radicand) * factor, the
\* operands evaluated left to right
joint_capacity(sub, strength_MPa, radicand) ==
    LET node_area == MulN(JointColumnWidth, JointColumnHeight)
        root == math_sqrt(radicand)
        factor == shear_moment_conversion_factor(sub)
    IN  IF root.raised # "no" THEN root
        ELSE IF factor.raised # "no" THEN factor
        ELSE [raised |-> "no",
              value |-> MulN(MulN(MulN(MulN(MulN(Frac(85, 100), node_area),
                                            strength_MPa), Num(1000)),
                                  root.value), factor.value)]

\* Subassembly.domain_MN of a subassembly that is not a base node
domain_MN(sub, axial) ==
    LET tensile_strength_MPa ==
            MulN(sub.kj, math_sqrt(MulN(JointConcreteFc, Frac(1, 1000))).value)
        compression_strength_MPa ==
            MulN(MulN(compression_kj_value, JointConcreteFc), Frac(1, 1000))
        tension_capacity ==
            joint_capacity(sub, tensile_strength_MPa, tension_radicand(sub, axial))
        compression_capacity ==
            joint_capacity(sub, compression_strength_MPa,
                           compression_radicand(sub, axial))
    IN  IF tension_capacity.raised = "ValueError"
        THEN [raised |-> "no", value |-> Num(0)]
        ELSE IF tension_capacity.raised # "no" THEN tension_capacity
        ELSE IF sub.node_type = "internal"
        THEN IF compression_capacity.raised = "ValueError"
             THEN [raised |-> "no", value |-> Num(0)]
             ELSE IF compression_capacity.raised # "no" THEN compression_capacity
             ELSE [raised |-> "no",
                   value |-> py_min(compression_capacity.value,
                                    tension_capacity.value)]
        ELSE tension_capacity

\* Subassembly(...) after __post_init__, with the members given
JointSub(left, right, above, span) ==
    LET members == [left_beam |-> IF left THEN LeftBeam ELSE Null,
                    right_beam |-> IF right THEN RightBeam ELSE Null,
                    above_column |-> IF above THEN AboveColumn ELSE Null,
                    below_column |-> BelowColumn]
    IN  [node_type |-> find_nodetype(members),
         kj |-> tension_kj_values(find_nodetype(members)),
         beam_length |-> span, column_length |-> JointColumnLength,
         left_beam |-> members.left_beam, right_beam |-> members.right_beam,
         above_column |-> members.above_column,
         below_column |-> members.below_column]

\* subassembly.domain_MN(axial)
CallDomainMN ==
    /\ ~jointRun.called
    /\ jointRun' = [jointRun EXCEPT
                      !.called = TRUE,
                      !.out = domain_MN(jointRun.sub, jointRun.axial)]
    /\ UNCHANGED <<poolVars, frameVars, hier, capSum, mainRun, mechRun,
                   factory, elemRun, sectRun>>

InitJointSpec ==
    /\ InitPool /\ InitNoFrames /\ InitNoHier /\ InitNoSum /\ InitNoMain /\ InitNoMech
    /\ InitNoFactory /\ InitNoElem /\ InitNoSect
    /\ \E left \in BOOLEAN, right \in BOOLEAN, above \in BOOLEAN,
          span \in JointBeamLengths, axial \in JointAxials :
            jointRun = [called |-> FALSE,
                        sub |-> JointSub(left, right, above, span),
                        axial |-> axial, out |-> NoPoint]

NextJoint == CallDomainMN

SpecJoint == InitJointSpec /\ [][NextJoint]_vars

\* The tension capacity and the compression capacity where their square
\* roots exist
TensionCapacity(sub, axial) ==
    joint_capacity(sub, MulN(sub.kj, Num(2)), tension_radicand(sub, axial)).value
CompressionCapacity(sub, axial) ==
    joint_capacity(sub, Num(2), compression_radicand(sub, axial)).value

\* C18: for a non-base subassembly domain_MN(axial) never raises; it returns
\* 0 when the quantity under the tension square root is negative and, for an
\* Internal node, also when the quantity under the compression square root
\* is negative; otherwise it returns the tension capacity, and for an
\* Internal node the lesser of the tension and compression capacities.
C18_JointCapacityNeverRaises ==
    jointRun.called =>
        LET sub == jointRun.sub
            axial == jointRun.axial
            out == jointRun.out
            tension_negative == Lt(tension_radicand(sub, axial), Num(0))
            compression_negative == Lt(compression_radicand(sub, axial), Num(0))
        IN  /\ out.raised = "no"
            /\ tension_negative => Eq(out.value, Num(0))
            /\ (sub.node_type = "internal" /\ compression_negative)
                    => Eq(out.value, Num(0))
            /\ (~tension_negative /\ sub.node_type # "internal")
                    => out.value = TensionCapacity(sub, axial)
            /\ (~tension_negative /\ ~compression_negative
                    /\ sub.node_type = "internal")
                    => /\ \/ out.value = TensionCapacity(sub, axial)
                          \/ out.value = CompressionCapacity(sub, axial)
                       /\ ~Lt(TensionCapacity(sub, axial), out.value)
                       /\ ~Lt(CompressionCapacity(sub, axial), out.value)

\* An Internal node whose compression square root does not exist while the
\* tension one does: 0 was returned, not the tension capacity.
C18_Witness ==
    /\ jointRun.called
    /\ jointRun.sub.node_type = "internal"
    /\ ~jointRun.axial.nan
    /\ ~Lt(tension_radicand(jointRun.sub, jointRun.axial), Num(0))
    /\ Lt(compression_radicand(jointRun.sub, jointRun.axial), Num(0))
    /\ Eq(jointRun.out.value, Num(0))
    /\ ~Eq(TensionCapacity(jointRun.sub, jointRun.axial), Num(0))

(***************************************************************************)
(* The weakest link and the sign of the candidates' moments.               *)
(***************************************************************************)
\* abs(a)
Abs(a) == IF a.nan THEN NaN ELSE IF a.n < 0 THEN Frac(-a.n, a.d) ELSE a

\* C19: for every non-base subassembly and hierarchy variant, the element
\* reported as weakest link is the candidate whose moment (the demand line
\* at its equilibrium axial load) is smallest in absolute value among all
\* candidates, also when some candidate moments are negative.
C19_WeakestIsSmallestMagnitude ==
    Returned =>
        \A k \in DOMAIN hier.out.capacities :
            ~Lt(Abs(hier.out.capacities[k]),
                Abs(hier.out.capacities[hier.out.weakest]))

(***************************************************************************)
(* The governing rotations of the weakest link.                            *)
(***************************************************************************)
\* The members of a kind that are present
PresentBeams(sub) == {m \in {sub.left_beam, sub.right_beam} : m # Null}
PresentColumns(sub) == {m \in {sub.above_column, sub.below_column} : m # Null}

SetMin(S) == CHOOSE x \in S : \A y \in S : x <= y
RECURSIVE SetSum(_)
SetSum(S) == IF S = {} THEN 0 ELSE LET x == CHOOSE y \in S : TRUE IN x + SetSum(S \ {x})

MinYield(members) == Num(SetMin({MemberRotations[m].rot_y : m \in members}))
MinCapacity(members) == Num(SetMin({MemberRotations[m].rot_c : m \in members}))
MeanYield(members) ==
    Frac(SetSum({MemberRotations[m].rot_y : m \in members}), Cardinality(members))

JointRotations(sub) ==
    IF sub.node_type \in {"internal", "top_internal"}
    THEN INTERNAL_NODE_ROTATION_CAPACITIES ELSE EXTERNAL_NODE_ROTATION_CAPACITIES

\* The member a candidate of the single hierarchy stands for
SingleMember(sub, weakest) ==
    IF weakest = "leftbeam" THEN sub.left_beam
    ELSE IF weakest = "rightbeam" THEN sub.right_beam
    ELSE IF weakest = "abovecolumn" THEN sub.above_column
    ELSE sub.below_column

\* The rule for a winning group of members (the beams or the columns):
\* minimum of the yield rotations, or their mean in the average hierarchy,
\* and minimum of the capacity rotations.
GroupRule(variant, members, out) ==
    /\ Eq(out.rot_y, IF variant = "avg" THEN MeanYield(members) ELSE MinYield(members))
    /\ Eq(out.rot_c, MinCapacity(members))

JointRule(sub, out) ==
    /\ Eq(out.rot_y, Num(JointRotations(sub)[1]))
    /\ Eq(out.rot_c, Num(JointRotations(sub)[2]))

\* C22 as stated: when a beam wins, rot_y and rot_c are the minima over the
\* present beams in the single and total hierarchies, the mean yield and
\* minimum capacity rotation in the average one; the same for columns; the
\* configured joint rotations when the joint wins.
C22_GroupRuleInEveryVariant ==
    (Returned /\ \A k \in DOMAIN hier.out.capacities : ~hier.out.capacities[k].nan) =>
        LET sub == hier.sub
            out == hier.out
        IN  /\ out.weakest \in {"beam", "leftbeam", "rightbeam"}
                    => GroupRule(hier.variant, PresentBeams(sub), out)
            /\ out.weakest \in {"column", "abovecolumn", "belowcolumn"}
                    => GroupRule(hier.variant, PresentColumns(sub), out)
            /\ out.weakest = "joint" => JointRule(sub, out)

\* C22, amended: in the total and average hierarchies the rule above holds
\* for the winning group; in the single hierarchy the rotations are those
\* of the winning member itself; when the joint wins they are the
\* configured internal-node values for Internal and TopInternal nodes and
\* the external-node values otherwise.
C22_GoverningRotations ==
    Returned =>
        LET sub == hier.sub
            out == hier.out
            own == MemberRotations[SingleMember(sub, out.weakest)]
        IN  /\ out.weakest = "beam" => GroupRule(hier.variant, PresentBeams(sub), out)
            /\ out.weakest = "column" => GroupRule(hier.variant, PresentColumns(sub), out)
            /\ out.weakest \in {"leftbeam", "rightbeam", "abovecolumn", "belowcolumn"}
                    => /\ hier.variant = "low"
                       /\ Eq(out.rot_y, Num(own.rot_y))
                       /\ Eq(out.rot_c, Num(own.rot_c))
            /\ out.weakest = "joint" => JointRule(sub, out)
            /\ out.weakest \in {"beam", "column"} => hier.variant \in {"tot", "avg"}

\* The beams of an internal node won in the average hierarchy: the yield
\* rotation is the mean of the two beams', which is not their minimum.
C22_Witness ==
    /\ Returned
    /\ hier.variant = "avg"
    /\ hier.out.weakest = "beam"
    /\ hier.sub.left_beam # Null /\ hier.sub.right_beam # Null
    /\ Eq(hier.out.rot_y, MeanYield(PresentBeams(hier.sub)))
    /\ Lt(MinYield(PresentBeams(hier.sub)), hier.out.rot_y)

\* The members of a subassembly that are present.
PresentMembers(sub) ==
    {m \in {sub.left_beam, sub.right_beam, sub.above_column, sub.below_column} :
        m # Null}

\* C26: for a subassembly that is not a base node, whose members all have
\* rot_y <= rot_c and whose configured joint rotations have yielding <=
\* ultimate, the SubHierarchy returned in any variant has rot_y <= rot_c.
C26_YieldNotBeyondCapacity ==
    (/\ Returned
     /\ hier.sub.node_type # "base"
     /\ \A m \in PresentMembers(hier.sub) :
            MemberRotations[m].rot_y <= MemberRotations[m].rot_c
     /\ get_node_rotations(hier.sub.node_type)[1]
            <= get_node_rotations(hier.sub.node_type)[2])
    => Le(hier.out.rot_y, hier.out.rot_c)

(***************************************************************************)
(* The sign of the axial redistribution and the loads above a node.        *)
(***************************************************************************)
\* C25: in a frame of V >= 2 verticals, get_delta_axial is 0 exactly on the
\* interior verticals, strictly positive on the first vertical and strictly
\* negative on the last one, at every floor; a Subassembly is never both
\* upwind and downwind, is exactly one of the two at an exterior node and
\* neither at an interior node.
C25_DeltaAxialSignByVertical ==
    /\ \A b \in BuiltFrames :
          \A node \in DOMAIN builders[b].adj :
              LET data == builders[b].data
                  v == get_node_vertical(data, node)
                  delta == get_delta_axial(data, node)
              IN  /\ delta.den > 0
                  /\ (delta.num = 0) <=> (0 < v /\ v < verticals(data) - 1)
                  /\ v = 0 => delta.num > 0
                  /\ v = verticals(data) - 1 => delta.num < 0
    /\ lastSub.frame # Null =>
          LET data == builders[lastSub.frame].data
              v == get_node_vertical(data, lastSub.node)
              exterior == v = 0 \/ v = verticals(data) - 1
          IN  /\ ~(lastSub.sub.upwind /\ lastSub.sub.downwind)
              /\ exterior => (lastSub.sub.upwind # lastSub.sub.downwind)
              /\ ~exterior => (~lastSub.sub.upwind /\ ~lastSub.sub.downwind)
              /\ lastSub.sub.upwind <=> v = 0
              /\ lastSub.sub.downwind <=> v = verticals(data) - 1

\* The subassembly of an upper node on the last vertical of a frame that
\* has an interior vertical was made: it is downwind and not upwind.
C25_Witness ==
    /\ lastSub.frame # Null
    /\ verticals(builders[lastSub.frame].data) = 3
    /\ get_node_vertical(builders[lastSub.frame].data, lastSub.node) = 2
    /\ get_node_floor(builders[lastSub.frame].data, lastSub.node) >= 1
    /\ lastSub.sub.downwind
    /\ ~lastSub.sub.upwind
    /\ lastSub.sub.delta_axial.num < 0

(***************************************************************************)
(* Specification of the superposition of three curves, as main folds the   *)
(* curves of the listed frames with "main_capacity += curve".              *)
(***************************************************************************)
ThirdCurveName == "C"

\* The three curves have two breakpoints each, among 0 .. MaxDisp + 1, so
\* that a breakpoint of one curve can lie strictly between two consecutive
\* breakpoints of the sum of the other two.
SumDisps == 0 .. MaxDisp + 1

AddThreeCurves ==
    /\ ~capSum.called
    /\ capSum' = [called |-> TRUE, a |-> capSum.a, b |-> capSum.b, c |-> capSum.c,
                  ab |-> FrameCapacity_add(capSum.a, capSum.b),
                  ba |-> FrameCapacity_add(capSum.b, capSum.a),
                  ab_c |-> FrameCapacity_add(FrameCapacity_add(capSum.a, capSum.b),
                                             capSum.c),
                  a_bc |-> FrameCapacity_add(capSum.a,
                                             FrameCapacity_add(capSum.b, capSum.c))]
    /\ UNCHANGED <<poolVars, frameVars, hier, mainRun, mechRun, unitVars>>

InitSum3Spec ==
    /\ InitPool /\ InitNoFrames /\ InitNoHier /\ InitNoMain /\ InitNoMech /\ InitNoUnits
    /\ \E pa \in SUBSET SumDisps, pb \in SUBSET SumDisps, pc \in SUBSET SumDisps :
        /\ Cardinality(pa) = 2
        /\ Cardinality(pb) = 2
        /\ Cardinality(pc) = 2
        /\ \E sa \in [1 .. Cardinality(pa) -> ShearValues],
              sb \in [1 .. Cardinality(pb) -> ShearValues],
              sc \in [1 .. Cardinality(pc) -> ShearValues] :
                capSum = [called |-> FALSE,
                          a |-> Curve(CurveNames[1], 3, pa, sa),
                          b |-> Curve(CurveNames[2], 4, pb, sb),
                          c |-> Curve(ThirdCurveName, 5, pc, sc)]

NextSum3 == AddThreeCurves

SpecSum3 == InitSum3Spec /\ [][NextSum3]_vars

\* Two curves with identical disp, base_shear and mass (any name).
SameCurve(x, y) ==
    /\ Len(x.disp) = Len(y.disp)
    /\ Len(x.base_shear) = Len(y.base_shear)
    /\ \A i \in DOMAIN x.disp : Eq(x.disp[i], y.disp[i])
    /\ \A i \in DOMAIN x.base_shear : Eq(x.base_shear[i], y.base_shear[i])
    /\ Eq(x.mass, y.mass)

\* The superposition of two curves does not depend on their order.
SumCommutes == capSum.called => SameCurve(capSum.ab, capSum.ba)

\* C27: the combined capacity of parallel frames does not depend on the
\* order or the grouping of the frames: A + B and B + A, and (A + B) + C and
\* A + (B + C), have identical disp, base_shear and mass.
C27_SumOrderIndependent ==
    capSum.called =>
        /\ SameCurve(capSum.ab, capSum.ba)
        /\ SameCurve(capSum.ab_c, capSum.a_bc)

(***************************************************************************)
(* Specification of RegularFrame.get_axial on frames with integer loads    *)
(* and loads of two and three decimals (loads are in thousandths here).    *)
(***************************************************************************)
LoadKinds == {"integer", "cents", "low", "high"}

AxialLoads(V, F, kind) ==
    [n \in 0 .. V * (F + 1) - 1 |->
        IF kind = "integer" THEN 1000 * (n + 1)
        ELSE IF kind = "cents" THEN 1000 * (n + 1) + 10 * (n + 2)
        ELSE IF kind = "low" THEN 1000 * (n + 1) + 4
        ELSE 1000 * (n + 1) + 6]

AxialFrame(V, F, kind) ==
    [FrameInput(V, F, CHOOSE h \in StoreyHeights : TRUE,
                CHOOSE l \in SpanLengths : TRUE, "first",
                CHOOSE t \in Tags : TRUE)
        EXCEPT !.loads = AxialLoads(V, F, kind)]

\* frame.get_axial(node), as get_subassembly calls it
GetAxial ==
    /\ lastSub.frame = Null
    /\ "axial" \notin DOMAIN lastSub
    /\ lastSub' = [frame |-> Null, data |-> lastSub.data, kind |-> lastSub.kind,
                   node |-> lastSub.node,
                   axial |-> get_axial(lastSub.data, lastSub.node)]
    /\ UNCHANGED <<poolVars, builders, calcVars>>

InitAxialSpec ==
    /\ InitPool /\ InitNoHier /\ InitNoSum /\ InitNoMain /\ InitNoMech /\ InitNoUnits
    /\ builders = [b \in Frames |-> [status |-> "none"]]
    /\ \E V \in 2 .. MaxVerticals, F \in 1 .. MaxFloors, kind \in LoadKinds :
          \E node \in 0 .. V * (F + 1) - 1 :
              lastSub = [frame |-> Null, data |-> AxialFrame(V, F, kind),
                         kind |-> kind, node |-> node]

NextAxial == GetAxial

SpecAxial == InitAxialSpec /\ [][NextAxial]_vars

\* The nodes at or above node on its vertical: node, node + V, node + 2V, ...
NodesAbove(data, node) ==
    {m \in DOMAIN data.loads :
        /\ get_node_vertical(data, m) = get_node_vertical(data, node)
        /\ get_node_floor(data, m) >= get_node_floor(data, node)}

RECURSIVE LoadSum(_, _)
LoadSum(loads, nodes) ==
    IF nodes = {} THEN 0
    ELSE LET m == CHOOSE x \in nodes : TRUE
         IN  loads[m] + LoadSum(loads, nodes \ {m})

\* C29: get_axial(node) is the sum of the loads of the node and of every
\* node above it on the same vertical, rounded to 2 decimals, and of no
\* other node; for integer loads axial(node) = load(node) + axial(node + V)
\* for every node below the top floor.
C29_AxialIsLoadAbove ==
    "axial" \in DOMAIN lastSub =>
        LET data == lastSub.data
            node == lastSub.node
            V == verticals(data)
        IN  /\ lastSub.axial = Round2(LoadSum(data.loads, NodesAbove(data, node)))
            /\ (lastSub.kind = "integer" /\ get_node_floor(data, node) < floors(data))
                  => lastSub.axial = data.loads[node] + get_axial(data, node + V)

\* get_axial returned for a base node of a two-storey frame whose loads have
\* three decimals: three loads are summed and the sum is rounded up.
C29_Witness ==
    /\ "axial" \in DOMAIN lastSub
    /\ lastSub.kind = "high"
    /\ floors(lastSub.data) = 2
    /\ verticals(lastSub.data) = 3
    /\ lastSub.node = 1
    /\ lastSub.axial = 15020
    /\ lastSub.axial # LoadSum(lastSub.data.loads, NodesAbove(lastSub.data, 1))

(***************************************************************************)
(* Specification of one ElementCollection under add_column_element,        *)
(* add_beam_element and reset.  Here requests is the log of the calls made *)
(* on the collection, numbered in the order they were made.                *)
(***************************************************************************)
\* ElementCollection.reset: the lists of the chosen kinds become new empty
\* lists held by the instance; the memo of the add methods is not touched.
reset(p, coll, beams, columns) ==
    LET p1 == IF beams
              THEN [p EXCEPT !.instLists = (<<coll, "beam">> :> <<>>) @@ p.instLists]
              ELSE p
    IN  IF columns
        THEN [p1 EXCEPT !.instLists = (<<coll, "column">> :> <<>>) @@ p1.instLists]
        ELSE p1

\* add_column_element / add_beam_element, logged with the Element returned.
AddCall(coll, kind, section, L) ==
    /\ Cardinality(requests) < MaxRequests
    /\ LET r == add_element(PoolState, coll, kind, section, L)
       IN  /\ SetPool(r.pool)
           /\ requests' = requests \cup
                {[op |-> "add", at |-> Cardinality(requests) + 1, coll |-> coll,
                  kinds |-> {kind}, section |-> section, L |-> L,
                  ret |-> r.ret, heap |-> Len(heap)]}
    /\ UNCHANGED <<frameVars, calcVars>>

\* reset(beams, columns), logged with the number of Elements created so far.
ResetCall(coll, beams, columns) ==
    /\ Cardinality(requests) < MaxRequests
    /\ SetPool(reset(PoolState, coll, beams, columns))
    /\ requests' = requests \cup
            {[op |-> "reset", at |-> Cardinality(requests) + 1, coll |-> coll,
              kinds |-> (IF beams THEN {"beam"} ELSE {})
                        \cup (IF columns THEN {"column"} ELSE {}),
              section |-> [owner |-> Null, kind |-> "none", tag |-> Null],
              L |-> 0, ret |-> Null, heap |-> Len(heap)]}
    /\ UNCHANGED <<frameVars, calcVars>>

InitResetSpec == InitPoolSpec

NextReset ==
    \/ \E kind \in Kinds, section \in PoolSections, L \in PoolLengths :
          AddCall(1, kind, section, L)
    \/ \E beams \in BOOLEAN, columns \in BOOLEAN : ResetCall(1, beams, columns)

SpecReset == InitResetSpec /\ [][NextReset]_vars

\* The resets of the list of a kind, and the last of them.
ResetsOf(kind) == {r \in requests : r.op = "reset" /\ kind \in r.kinds}
LastReset(kind) == CHOOSE r \in ResetsOf(kind) : \A q \in ResetsOf(kind) : q.at <= r.at

\* The add calls of a kind answered since the last reset of its list.
AddsSinceReset(kind) ==
    {r \in requests :
        /\ r.op = "add" /\ kind \in r.kinds
        /\ (ResetsOf(kind) # {} => r.at > LastReset(kind).at)}

\* After a reset the list holds no Element created before the reset.
ResetForgetsOldElements ==
    \A kind \in Kinds :
        ResetsOf(kind) # {} =>
            \A id \in SeqRange(get_elements(PoolState, 1, kind)) :
                id > LastReset(kind).heap

\* C30: after any sequence of add_column_element, add_beam_element and reset
\* calls, every Element returned by an add since the last reset of its kind
\* is in the list get_columns / get_beams returns, and after a reset the
\* list holds no Element created before the reset.
C30_ReturnedElementsAreListed ==
    /\ \A kind \in Kinds :
          \A r \in AddsSinceReset(kind) :
              r.ret \in SeqRange(get_elements(PoolState, 1, kind))
    /\ ResetForgetsOldElements

====
